---------------------------- MODULE Spec2Model ----------------------------
(***************************************************************************)
(* Acquisition orchestration of PFI-PENAL-2025:                            *)
(*   - descarga_de_videos.py : the asset prober (find_existing_asset), the *)
(*     format negotiator (build_ydl_opts), the per-item task (download_one)*)
(*     and the sequential batch loop with its report (main);               *)
(*   - download.py : the URL classifier (get_url_info, lru_cache), the     *)
(*     task (download_single_video) and the thread-pool scheduler          *)
(*     (download_youtube_content).                                         *)
(* Strings whose characters the code inspects (paths, file names, format   *)
(* selectors) are sequences of one-character strings.  The media-fetch     *)
(* engine (yt-dlp) is external: each call is a nondeterministic choice     *)
(* among the outcomes it can produce.                                      *)
(***************************************************************************)
EXTENDS Integers, Sequences, FiniteSets, TLC

VARIABLES
    prog,       \* which program this behaviour runs: "probe", "batch", "pool", "opts", "cls"
    fs,         \* output directory: file name -> size in bytes (present files only)
    \* --- a single call of find_existing_asset ---
    pstem,      \* stem probed by the last call
    plisting,   \* the listing glob.glob returned to that call
    presult,    \* what the call returned
    pfsBefore,  \* directory content when the call started
    pcalled,    \* whether a call has been made
    \* --- descarga_de_videos.py, main ---
    args,       \* parsed command line and what it finds in the environment
    excel,      \* the input workbook
    mpc,        \* position of main: "read", "loop", "report", "exit0", "exit1", "crashed"
    df,         \* rows read_excel returned
    idx,        \* index in df of the row the loop is at
    rows,       \* report rows appended so far
    ok_count,   \* main's success tally
    report,     \* the report file: None, or <<rows written>>
    tpc,        \* position of download_one for the current row
    ydl_opts,   \* options build_ydl_opts returned for the current row
    existing,   \* download_one's local: result of the first probe
    outcome,    \* what download_one returned for the current row
    ecalls,     \* history: per row, engine calls made in this run
    probed,     \* history: per row, what the first probe returned in this run
    run,        \* history: which run of the batch this is
    prev,       \* history: status and path of each report row of the previous run
    \* --- download.py, download_youtube_content ---
    urls,        \* the urls argument
    max_workers, \* the max_workers argument
    audio_only,  \* the audio_only argument
    cache,       \* lru_cache of get_url_info: entries, most recently used last
    dpc,         \* position of download_youtube_content
    nclassified, \* urls the pre-dispatch pass has classified
    tasks,       \* per submitted index: the future and the locals of its task
    finished,    \* futures in the order they finished
    snap,        \* futures as_completed found finished when it was called
    results,     \* the result list
    hist,        \* history: per task, the engine's answers to its calls
    \* --- one negotiation of the options handed to the engine ---
    nargs,       \* command line and environment (ffmpeg, cookie file)
    naudio,      \* the audio_only flag of download_single_video
    nstem,       \* the file name stem build_ydl_opts is given
    handed,      \* None, or the code path taken and the options it produced
    \* --- a process that only classifies urls (get_url_info) ---
    ccache,      \* lru_cache of get_url_info in that process
    cwatch,      \* None, or the first url classified and the value returned for it
    cnfill,      \* how many other distinct urls have been classified since
    cnagain,     \* how many times the first url has been classified again
    clast,       \* None, or the last call: url, outcome, whether the engine inspected
                 \* and what it answered
    \* --- the engine consulting retry_sleep_functions during one call ---
    rclass,      \* None, or the error class of the retries: "http", "fragment", "extractor"
    rfirst,      \* the number the engine gives to the first retry
    rslept,      \* the sleeps it has been told so far, in order
    \* --- one call of parse_multiple_urls ---
    uinput,      \* the input string
    uresult,     \* None, or what the call returned and how many tokens it skipped
    \* --- one call of fetch_profile (jugadores.py) ---
    fmax,        \* max_retries
    fhist,       \* the responses to the requests issued so far, in order
    fpc,         \* "off", "loop" (next request due), "returned", "raised"
    fret,        \* what was returned: None or the profile
    \* --- the interactive entry point of download.py ---
    wnurls,      \* how many urls parse_multiple_urls gave
    wtext,       \* the text entered for the number of concurrent downloads
    wbudget      \* None, or the max_workers passed to download_youtube_content

probeVars == <<pstem, plisting, presult, pfsBefore, pcalled>>
batchVars == <<args, excel, mpc, df, idx, rows, ok_count, report, tpc, ydl_opts,
               existing, outcome, ecalls, probed, run, prev>>
poolVars == <<urls, max_workers, audio_only, cache, dpc, nclassified,
              tasks, finished, snap, results, hist>>
optsVars == <<nargs, naudio, nstem, handed>>
clsVars == <<ccache, cwatch, cnfill, cnagain, clast>>
retryVars == <<rclass, rfirst, rslept>>
parseVars == <<uinput, uresult>>
fetchVars == <<fmax, fhist, fpc, fret>>
entryVars == <<wnurls, wtext, wbudget>>
auxVars == <<parseVars, fetchVars, entryVars>>
vars == <<prog, fs, probeVars, batchVars, poolVars, optsVars, clsVars, retryVars, auxVars>>

-----------------------------------------------------------------------------
(* Strings as sequences of characters *)

UpperChars == <<"A","B","C","D","E","F","G","H","I","J","K","L","M",
                "N","O","P","Q","R","S","T","U","V","W","X","Y","Z">>
LowerChars == <<"a","b","c","d","e","f","g","h","i","j","k","l","m",
                "n","o","p","q","r","s","t","u","v","w","x","y","z">>

\* str.lower() on one character
LowerChar(c) ==
    IF \E i \in 1..Len(UpperChars) : UpperChars[i] = c
    THEN LowerChars[CHOOSE i \in 1..Len(UpperChars) : UpperChars[i] = c]
    ELSE c

\* str.lower()
Lower(s) == [i \in 1..Len(s) |-> LowerChar(s[i])]

\* "t in s" on strings
Contains(s, t) ==
    \E i \in 1..(Len(s) - Len(t) + 1) : SubSeq(s, i, i + Len(t) - 1) = t

\* str.strip()
Strip(s) ==
    LET I == { i \in 1..Len(s) : s[i] # " " }
    IN  IF I = {} THEN <<>>
        ELSE SubSeq(s, CHOOSE i \in I : \A j \in I : i <= j,
                       CHOOSE i \in I : \A j \in I : j <= i)

\* str.startswith
StartsWith(s, p) == Len(p) <= Len(s) /\ SubSeq(s, 1, Len(p)) = p

\* str.endswith
EndsWith(s, p) == Len(p) <= Len(s) /\ SubSeq(s, Len(s) - Len(p) + 1, Len(s)) = p

\* str.rfind + 1 (0 when absent)
LastIndexOf(s, c) ==
    LET I == {i \in 1..Len(s) : s[i] = c}
    IN  IF I = {} THEN 0 ELSE CHOOSE i \in I : \A j \in I : j <= i

\* Position of the dot that starts the extension, 0 when there is none:
\* the last dot after the last separator, unless only dots precede it in
\* the file name.
ExtIndex(p) ==
    LET sep == LastIndexOf(p, "/")
        dot == LastIndexOf(p, ".")
    IN  IF dot > sep /\ (\E k \in (sep + 1)..(dot - 1) : p[k] # ".") THEN dot ELSE 0

\* os.path.splitext(p)[0] and [1]
SplitExtRoot(p) == IF ExtIndex(p) = 0 THEN p ELSE SubSeq(p, 1, ExtIndex(p) - 1)
SplitExtExt(p)  == IF ExtIndex(p) = 0 THEN <<>> ELSE SubSeq(p, ExtIndex(p), Len(p))

\* os.path.join(dir, name) for a relative name
PathJoin(dir, name) ==
    IF dir = <<>> \/ dir[Len(dir)] = "/" THEN dir \o name ELSE dir \o <<"/">> \o name

\* os.path.basename / os.path.dirname
BaseName(p) == SubSeq(p, LastIndexOf(p, "/") + 1, Len(p))
DirName(p)  == IF LastIndexOf(p, "/") <= 1 THEN SubSeq(p, 1, LastIndexOf(p, "/"))
               ELSE SubSeq(p, 1, LastIndexOf(p, "/") - 1)

-----------------------------------------------------------------------------
(* Constants of descarga_de_videos.py *)

VALID_FINAL_EXTS ==
    { <<".","m","p","4">>, <<".","m","k","v">>, <<".","w","e","b","m">>,
      <<".","m","o","v">>, <<".","m","4","v">>, <<".","m","p","3">>,
      <<".","a","a","c">>, <<".","o","p","u","s">>, <<".","m","4","a">> }

TEMP_EXT_CONTAINS ==
    { <<".","p","a","r","t">>, <<".","y","t","d","l">>,
      <<".","t","e","m","p">>, <<".","t","m","p">> }

\* Python's None; also the falsy value of "if existing:" (a path is never empty)
None == <<>>

\* the variables of a program that is not the one running
IdleOpts == nargs = <<>> /\ naudio = FALSE /\ nstem = <<>> /\ handed = <<>>

IdleParse == uinput = <<>> /\ uresult = <<>>

IdleFetch == fmax = 0 /\ fhist = <<>> /\ fpc = "off" /\ fret = <<>>

IdleEntry == wnurls = 0 /\ wtext = <<>> /\ wbudget = <<>>

IdleAux == IdleParse /\ IdleFetch /\ IdleEntry

IdleRetry == rclass = <<>> /\ rfirst = 0 /\ rslept = <<>>

IdleCls == ccache = <<>> /\ cwatch = <<>> /\ cnfill = 0 /\ cnagain = 0 /\ clast = <<>>

IdleBatch ==
    /\ args = None /\ excel = None /\ mpc = "off" /\ df = <<>> /\ idx = 0
    /\ rows = <<>> /\ ok_count = 0 /\ report = None /\ tpc = "IDLE"
    /\ ydl_opts = None /\ existing = None /\ outcome = None
    /\ ecalls = <<>> /\ probed = <<>> /\ run = 0 /\ prev = <<>>

IdleProbe ==
    /\ pstem = None /\ plisting = <<>> /\ presult = None
    /\ pfsBefore = <<>> /\ pcalled = FALSE

IdlePool ==
    /\ urls = <<>> /\ max_workers = 0 /\ audio_only = FALSE
    /\ cache = <<>> /\ dpc = "off" /\ nclassified = 0 /\ tasks = <<>>
    /\ finished = <<>> /\ snap = {} /\ results = <<>> /\ hist = <<>>

-----------------------------------------------------------------------------
(* The world the model draws from *)

\* args.output
OutputDir == <<"d","l">>

\* logical ids (column A of the workbook)
IdP1   == <<"p","1">>
IdP1v2 == <<"p","1",".","v","2">>
IdQtmp == <<"q",".","t","m","p">>
Ids == {IdP1, IdP1v2, IdQtmp}

\* file sizes: empty or not
Sizes == {0, 3}

\* file names that may lie in the output directory when a probe is made
ProbeNames ==
    { IdP1 \o <<".","m","p","4">>,
      IdP1 \o <<".","M","K","V">>,
      IdP1 \o <<".","m","p","4",".","p","a","r","t">>,
      IdP1 \o <<".","t","x","t">>,
      IdP1v2 \o <<".","m","p","4">>,
      IdQtmp \o <<".","m","p","4">> }

\* every directory content over a set of names
DirsOver(names) == UNION { [S -> Sizes] : S \in SUBSET names }

\* every ordering of a finite set, as sequences
RECURSIVE Orderings(_)
Orderings(S) ==
    IF S = {} THEN { <<>> }
    ELSE UNION { { <<x>> \o s : s \in Orderings(S \ {x}) } : x \in S }

-----------------------------------------------------------------------------
(* Asset prober *)

\* os.path.exists / os.path.getsize on a path of the output directory
PathExists(dirfs, path) ==
    DirName(path) = OutputDir /\ BaseName(path) \in DOMAIN dirfs
GetSize(dirfs, path) == dirfs[BaseName(path)]

\* the paths glob.glob(os.path.join(output_dir, stem + ".*")) matches: the
\* names of the directory that start with stem + "." (a name with a leading
\* dot only under a pattern with a leading dot); the stems of the model hold
\* no glob metacharacter.
GlobMatches(dirfs, output_dir, stem) ==
    IF output_dir # OutputDir THEN {}
    ELSE { PathJoin(output_dir, n) : n \in
             { m \in DOMAIN dirfs :
                  /\ StartsWith(m, stem \o <<".">>)
                  /\ (m[1] = "." => (stem \o <<".">>)[1] = ".") } }

\* "any(t in path.lower() for t in TEMP_EXT_CONTAINS)"
HasTempMarker(path) == \E t \in TEMP_EXT_CONTAINS : Contains(Lower(path), t)

\* variant: the size of the file is not looked at
\* variant: any non-empty file is taken for a final one
IsFinalFile_AnyExt(dirfs, path) == GetSize(dirfs, path) > 0

IsFinalFile_NoSize(dirfs, path) ==
    Lower(SplitExtExt(path)) \in VALID_FINAL_EXTS

\* "ext.lower() in VALID_FINAL_EXTS and os.path.getsize(path) > 0"
IsFinalFile(dirfs, path) ==
    Lower(SplitExtExt(path)) \in VALID_FINAL_EXTS /\ GetSize(dirfs, path) > 0

\* the body of the loop of find_existing_asset: the path is returned
Qualifies(dirfs, path) == ~HasTempMarker(path) /\ IsFinalFile(dirfs, path)

\* find_existing_asset(output_dir, stem), given the listing glob.glob
\* returned: the first path of the listing that qualifies, else None
FindExistingAsset(dirfs, listing) ==
    LET I == { i \in 1..Len(listing) : Qualifies(dirfs, listing[i]) }
    IN  IF I = {} THEN None
        ELSE listing[CHOOSE i \in I : \A j \in I : i <= j]

\* variant: the probe removes the empty files it comes across
FsAfterProbe_RemovingEmpty(dirfs, listing) ==
    [ n \in { m \in DOMAIN dirfs :
                ~\E i \in 1..Len(listing) :
                    BaseName(listing[i]) = m /\ dirfs[m] = 0 } |-> dirfs[n] ]

\* the folder after find_existing_asset ran over the listing: glob.glob,
\* os.path.splitext and os.path.getsize only read
FsAfterProbe(dirfs, listing) == dirfs

\* whether some call find_existing_asset(output_dir, stem) returns path
ProberAccepts(dirfs, stem, path) ==
    path \in GlobMatches(dirfs, OutputDir, stem) /\ Qualifies(dirfs, path)

\* the listings the file system may hand to one call
Listings(dirfs, output_dir, stem) == Orderings(GlobMatches(dirfs, output_dir, stem))

-----------------------------------------------------------------------------
(* Format negotiation and credentials: build_ydl_opts *)

Mp4 == <<".","m","p","4">>

\* the two format selectors of build_ydl_opts, as selector tokens
\* ("+" merges separate streams, "/" is the fallback)
FmtMerged == <<"bestvideo*", "+", "bestaudio", "/", "best">>
FmtBest   == <<"best">>

\* variant: the muxer is not looked for
WantMerge_NoMuxerCheck(a) == ~a.no_max_quality_mp4

\* line 63: "want_max_quality_mp4 and have_ffmpeg", main passing
\* want_max_quality_mp4 = not args.no_max_quality_mp4 (line 275)
WantMerge(a) == ~a.no_max_quality_mp4 /\ a.have_ffmpeg

\* variant: the browser cookies are passed along with the cookie file
BuildYdlOpts_BothSources(a, output_dir, filename_no_ext) ==
    LET merged == WantMerge(a)
        base == [ raises |-> FALSE,
                  format |-> IF merged THEN FmtMerged ELSE FmtBest,
                  postprocessors |->
                      IF merged
                      THEN << [key |-> "FFmpegVideoRemuxer", preferedformat |-> "mp4"],
                              [key |-> "FFmpegVideoConvertor", preferedformat |-> "mp4"] >>
                      ELSE <<>>,
                  merge_output_format |-> IF merged THEN <<"mp4">> ELSE None,
                  noplaylist |-> TRUE,
                  ignoreerrors |-> FALSE,
                  outtmpl |-> PathJoin(output_dir, filename_no_ext) \o <<".", "%(ext)s">>,
                  cookiefile |-> None,
                  cookiesfrombrowser |->
                      IF a.browser # None THEN <<a.browser[1], a.profile>> ELSE None ]
    IN  IF a.cookie_file # None
        THEN IF ~a.cookie_exists
             THEN [raises |-> TRUE, error |-> "FileNotFoundError"]
             ELSE [base EXCEPT !.cookiefile = a.cookie_file]
        ELSE base

\* build_ydl_opts(output_dir, filename_no_ext, browser, profile, cookie_file,
\* want_max_quality_mp4) in an environment where ffmpeg is or is not on PATH
\* and the cookie file does or does not exist
BuildYdlOpts(a, output_dir, filename_no_ext) ==
    LET merged == WantMerge(a)
        base == [ raises |-> FALSE,
                  format |-> IF merged THEN FmtMerged ELSE FmtBest,
                  postprocessors |->
                      IF merged
                      THEN << [key |-> "FFmpegVideoRemuxer", preferedformat |-> "mp4"],
                              [key |-> "FFmpegVideoConvertor", preferedformat |-> "mp4"] >>
                      ELSE <<>>,
                  merge_output_format |-> IF merged THEN <<"mp4">> ELSE None,
                  noplaylist |-> TRUE,
                  ignoreerrors |-> FALSE,
                  outtmpl |-> PathJoin(output_dir, filename_no_ext) \o <<".", "%(ext)s">>,
                  cookiefile |-> None,
                  cookiesfrombrowser |-> None ]
    IN  IF a.cookie_file # None
        THEN IF ~a.cookie_exists
             THEN [raises |-> TRUE, error |-> "FileNotFoundError"]
             ELSE [base EXCEPT !.cookiefile = a.cookie_file]
        ELSE IF a.browser # None
             THEN [base EXCEPT !.cookiesfrombrowser = <<a.browser[1], a.profile>>]
             ELSE base

-----------------------------------------------------------------------------
(* The media-fetch engine, as seen from descarga_de_videos.py *)

\* messages of the exceptions the engine raises
EngineMsgs == {"Sign in to confirm you are not a bot", "HTTP Error 403"}

\* ydl.extract_info(url, download=False): an exception, None, or metadata
ExtractOutcomes ==
    { [kind |-> "raise", msg |-> m] : m \in EngineMsgs }
      \cup { [kind |-> "none"], [kind |-> "info"] }

Ext(str) == <<".">> \o str
Webm == <<"w","e","b","m">>
PartOfMp4 == <<"m","p","4",".","p","a","r","t">>

\* ydl.download([url]) under the template output_dir/stem.%(ext)s: it returns
\* having written nothing, stem.mp4 or stem.webm (the source's container),
\* or raises, possibly leaving a partial file behind
DownloadOutcomes(stem) ==
    { [kind |-> "return", writes |-> w] :
         w \in { <<>>, stem \o Mp4, stem \o Ext(Webm) } }
      \cup
    { [kind |-> "raise", msg |-> m, writes |-> w] :
         m \in EngineMsgs, w \in { <<>>, stem \o Ext(PartOfMp4) } }

\* the directory after the engine wrote file name w (nothing when w is
\* empty): the file is created or replaced, and is not empty
AfterWrite(dirfs, w) ==
    IF w = <<>> THEN dirfs
    ELSE [ n \in DOMAIN dirfs \cup {w} |-> IF n = w THEN 5 ELSE dirfs[n] ]

-----------------------------------------------------------------------------
(* download_one and its helpers *)

\* filesize(path): None when os.path.getsize raises
Filesize(dirfs, path) ==
    IF PathExists(dirfs, path) THEN <<GetSize(dirfs, path)>> ELSE None

\* truth value of an Optional[int]
Truthy(optint) == optint # None /\ optint[1] # 0

\* the stem ensure_mp4_final_path probes when the path itself is missing
EnsureStem(path) == BaseName(SplitExtRoot(path))
EnsureFolder(path) == IF DirName(path) = <<>> THEN <<".">> ELSE DirName(path)

\* ensure_mp4_final_path(path), given the listing its probe would be handed
EnsureMp4FinalPath(dirfs, path, listing) ==
    IF PathExists(dirfs, path) THEN path
    ELSE IF FindExistingAsset(dirfs, listing) # None
         THEN FindExistingAsset(dirfs, listing)
         ELSE path

\* variant: an existing asset is reported as a fresh download
SkippedOutcome_AsOk(dirfs, found) ==
    [ status |-> "OK", message |-> [text |-> "OK", path |-> found],
      filepath |-> found, size_bytes |-> Filesize(dirfs, found) ]

\* the tuples download_one returns
SkippedOutcome(dirfs, found) ==
    [ status |-> "SKIPPED", message |-> [text |-> "Ya existe", path |-> found],
      filepath |-> found, size_bytes |-> Filesize(dirfs, found) ]

NoInfoOutcome(url) ==
    [ status |-> "ERROR", message |-> [text |-> "No se pudo extraer info", url |-> url],
      filepath |-> None, size_bytes |-> None ]

\* variant: the exception's text is left out of the message
EngineErrorOutcome_NoDetail(url, e) ==
    [ status |-> "ERROR",
      message |-> [text |-> "Error descargando", url |-> url],
      filepath |-> None, size_bytes |-> None ]

EngineErrorOutcome(url, e) ==
    [ status |-> "ERROR",
      message |-> [text |-> "Error descargando", url |-> url, detail |-> e],
      filepath |-> None, size_bytes |-> None ]

\* variant: a final file that is not an mp4 gets a status of its own
VerifyOutcome_ThirdStatus(dirfs, final_path) ==
    IF PathExists(dirfs, final_path) /\ Truthy(Filesize(dirfs, final_path))
    THEN [ status |-> IF EndsWith(Lower(final_path), Mp4) THEN "OK" ELSE "OK_NO_MP4",
           message |-> [text |-> "OK", path |-> final_path],
           filepath |-> final_path, size_bytes |-> Filesize(dirfs, final_path) ]
    ELSE [ status |-> "ERROR",
           message |-> [text |-> "Descargado pero no se encontro archivo final. Revisar ffmpeg/post-procesado."],
           filepath |-> None, size_bytes |-> None ]

\* lines 179-187: the outcome once the transfer returned
VerifyOutcome(dirfs, final_path) ==
    IF PathExists(dirfs, final_path) /\ Truthy(Filesize(dirfs, final_path))
    THEN IF EndsWith(Lower(final_path), Mp4)
         THEN [ status |-> "OK", message |-> [text |-> "OK", path |-> final_path],
                filepath |-> final_path, size_bytes |-> Filesize(dirfs, final_path) ]
         ELSE [ status |-> "OK",
                message |-> [text |-> "OK (no MP4 por falta de ffmpeg)", path |-> final_path],
                filepath |-> final_path, size_bytes |-> Filesize(dirfs, final_path) ]
    ELSE [ status |-> "ERROR",
           message |-> [text |-> "Descargado pero no se encontro archivo final. Revisar ffmpeg/post-procesado."],
           filepath |-> None, size_bytes |-> None ]

-----------------------------------------------------------------------------
(* read_excel *)

Nan == <<"n","a","n">>

\* the rows read_excel keeps: cells stripped, rows with an empty id, an
\* empty url or the url "nan" dropped
RECURSIVE CleanRows(_)
CleanRows(raw) ==
    IF raw = <<>> THEN <<>>
    ELSE LET r == [internal_penalty_id |-> Strip(Head(raw).internal_penalty_id),
                   url |-> Strip(Head(raw).url)]
         IN  IF r.internal_penalty_id # <<>> /\ r.url # <<>> /\ Lower(r.url) # Nan
             THEN <<r>> \o CleanRows(Tail(raw))
             ELSE CleanRows(Tail(raw))

\* variant: the width of the sheet is not checked
ReadExcelRaises_NoWidthCheck(x) == x.kind = "unreadable"

\* read_excel(excel_path, sheet): raises when the workbook cannot be read or
\* has fewer than 13 columns
ReadExcelRaises(x) == x.kind # "ok"
ReadExcel(x) == CleanRows(x.rows)

\* "not pen_id or not url or url.lower() == 'nan'" of the main loop
Incomplete(pen_id, url) == pen_id = <<>> \/ url = <<>> \/ Lower(url) = Nan

-----------------------------------------------------------------------------
(* The world of the batch program *)

MaxRows == 2

Url1 == <<"u","1">>

RawRows ==
    { [internal_penalty_id |-> i, url |-> Url1] : i \in Ids \cup { <<" ">> } }
      \cup { [internal_penalty_id |-> IdP1, url |-> <<"N","a","N">>] }

SeqsUpTo(S, n) == UNION { [1..k -> S] : k \in 0..n }

Workbooks ==
    { [kind |-> "unreadable", rows |-> <<>>], [kind |-> "narrow", rows |-> <<>>] }
      \cup { [kind |-> "ok", rows |-> r] : r \in SeqsUpTo(RawRows, MaxRows) }

\* command lines and environments of the batch program
BatchArgs ==
    { [cookie_file |-> None, cookie_exists |-> FALSE, browser |-> None,
       profile |-> None, no_max_quality_mp4 |-> FALSE, have_ffmpeg |-> TRUE],
      [cookie_file |-> <<"cookies.txt">>, cookie_exists |-> FALSE, browser |-> <<"chrome">>,
       profile |-> None, no_max_quality_mp4 |-> FALSE, have_ffmpeg |-> TRUE],
      [cookie_file |-> <<"cookies.txt">>, cookie_exists |-> TRUE, browser |-> None,
       profile |-> None, no_max_quality_mp4 |-> TRUE, have_ffmpeg |-> TRUE],
      [cookie_file |-> None, cookie_exists |-> FALSE, browser |-> <<"chrome">>,
       profile |-> <<"Default">>, no_max_quality_mp4 |-> FALSE, have_ffmpeg |-> FALSE] }

\* names that may lie in the output directory before the first run
BatchInitNames == { IdP1 \o Mp4 }

\* no engine call yet: extractions, transfers, transfers that wrote a file,
\* and the message of the exception the engine raised, if any
\* history of one row: extract_info calls, download calls, files written,
\* the exception the engine raised, what extract_info answered
NoCalls == [x |-> 0, d |-> 0, w |-> 0, raised |-> <<>>, xres |-> <<>>]

-----------------------------------------------------------------------------
(* Program "batch": main of descarga_de_videos.py, run twice in a row *)

InitBatch ==
    /\ prog = "batch"
    /\ IdleProbe /\ IdlePool /\ IdleOpts /\ IdleCls /\ IdleRetry /\ IdleAux
    /\ fs \in DirsOver(BatchInitNames)
    /\ args \in BatchArgs
    /\ excel \in Workbooks
    /\ mpc = "read" /\ df = <<>> /\ idx = 0
    /\ rows = <<>> /\ ok_count = 0 /\ report = None /\ tpc = "IDLE"
    /\ ydl_opts = None /\ existing = None /\ outcome = None
    /\ ecalls = <<>> /\ probed = <<>> /\ run = 1 /\ prev = <<>>

\* lines 238-247: read the workbook, exit 1 when that fails
MainRead ==
    /\ prog = "batch" /\ mpc = "read"
    /\ IF ReadExcelRaises(excel)
       THEN /\ mpc' = "exit1"
            /\ UNCHANGED <<df, idx, ecalls, probed>>
       ELSE /\ mpc' = "loop"
            /\ df' = ReadExcel(excel)
            /\ idx' = 1
            /\ ecalls' = [i \in 1..Len(ReadExcel(excel)) |-> NoCalls]
            /\ probed' = [i \in 1..Len(ReadExcel(excel)) |-> <<>>]
    /\ UNCHANGED <<prog, auxVars, retryVars, clsVars, fs, probeVars, poolVars, optsVars, args, excel, rows, ok_count, report, tpc,
                   ydl_opts, existing, outcome, run, prev>>

\* the report row main appends for the current row
ReportRow(r, o) ==
    [ internal_penalty_id |-> Strip(r.internal_penalty_id), url |-> Strip(r.url),
      status |-> o.status, message |-> o.message,
      filepath |-> o.filepath, size_bytes |-> o.size_bytes ]

IncompleteRow(r) ==
    [ internal_penalty_id |-> Strip(r.internal_penalty_id), url |-> Strip(r.url),
      status |-> "ERROR", message |-> [text |-> "Datos incompletos"],
      filepath |-> None, size_bytes |-> None ]

\* lines 250-278: take the next row; an incomplete row is reported and
\* skipped, otherwise build_ydl_opts is called (its FileNotFoundError is not
\* caught) and download_one is entered
RowStart ==
    /\ prog = "batch" /\ mpc = "loop" /\ tpc = "IDLE" /\ idx <= Len(df)
    /\ LET r == df[idx]
           pen_id == Strip(r.internal_penalty_id)
           url == Strip(r.url)
           o == BuildYdlOpts(args, OutputDir, pen_id)
       IN  IF Incomplete(pen_id, url)
           THEN /\ rows' = Append(rows, IncompleteRow(r))
                /\ idx' = idx + 1
                /\ UNCHANGED <<mpc, tpc, ydl_opts>>
           ELSE IF o.raises
                THEN /\ mpc' = "crashed"
                     /\ UNCHANGED <<rows, idx, tpc, ydl_opts>>
                ELSE /\ ydl_opts' = o
                     /\ tpc' = "PROBING"
                     /\ UNCHANGED <<rows, idx, mpc>>
    /\ UNCHANGED <<prog, auxVars, retryVars, clsVars, fs, probeVars, poolVars, optsVars, args, excel, df, ok_count, report,
                   existing, outcome, ecalls, probed, run, prev>>

\* variant: the early return is missing
AfterProbe_NoReturn(found) == "FETCHING"

\* lines 167-168: "if existing: return ..." ends the task, else it fetches
AfterProbe(found) == IF found # None THEN "DONE" ELSE "FETCHING"

\* lines 162-168: the first probe and the skip fast path
TaskProbe ==
    /\ prog = "batch" /\ tpc = "PROBING"
    /\ LET final_stem == Strip(df[idx].internal_penalty_id)
       IN  \E listing \in Listings(fs, OutputDir, final_stem) :
             LET found == FindExistingAsset(fs, listing)
             IN  /\ existing' = found
                 /\ probed' = [probed EXCEPT ![idx] = <<found>>]
                 /\ tpc' = AfterProbe(found)
                 /\ IF found # None
                    THEN outcome' = SkippedOutcome(fs, found)
                    ELSE UNCHANGED outcome
    /\ UNCHANGED <<prog, auxVars, retryVars, clsVars, fs, probeVars, poolVars, optsVars, args, excel, mpc, df, idx, rows, ok_count,
                   report, ydl_opts, ecalls, run, prev>>

\* variant: the "if info is None" check is missing
\* variant: an extraction that raised is tried again
AfterExtract_RetryOnRaise(r) ==
    IF r.kind = "raise" THEN "FETCHING"
    ELSE IF r.kind = "none" THEN "DONE" ELSE "TRANSFER"

AfterExtract_NoNoneCheck(r) == IF r.kind = "raise" THEN "DONE" ELSE "TRANSFER"

\* lines 172-177: where download_one goes after extract_info answered r
AfterExtract(r) == IF r.kind \in {"raise", "none"} THEN "DONE" ELSE "TRANSFER"

\* lines 170-174 and 176-177: the metadata-only extraction
TaskExtract ==
    /\ prog = "batch" /\ tpc = "FETCHING"
    /\ LET url == Strip(df[idx].url)
       IN  \E r \in ExtractOutcomes :
             /\ ecalls' = [ecalls EXCEPT ![idx].x = @ + 1,
                                         ![idx].raised = IF r.kind = "raise" THEN <<r.msg>> ELSE @,
                                         ![idx].xres = <<r.kind>>]
             /\ tpc' = AfterExtract(r)
             /\ CASE r.kind = "raise" -> outcome' = EngineErrorOutcome(url, r.msg)
                  [] r.kind = "none" -> outcome' = NoInfoOutcome(url)
                  [] OTHER -> UNCHANGED outcome
    /\ UNCHANGED <<prog, auxVars, retryVars, clsVars, fs, probeVars, poolVars, optsVars, args, excel, mpc, df, idx, rows, ok_count,
                   report, ydl_opts, existing, probed, run, prev>>

\* lines 175-177: the transfer
TaskDownload ==
    /\ prog = "batch" /\ tpc = "TRANSFER"
    /\ LET url == Strip(df[idx].url)
           final_stem == Strip(df[idx].internal_penalty_id)
       IN  \E r \in DownloadOutcomes(final_stem) :
             /\ fs' = AfterWrite(fs, r.writes)
             /\ ecalls' = [ecalls EXCEPT ![idx].d = @ + 1,
                                         ![idx].w = IF r.writes # <<>> THEN @ + 1 ELSE @,
                                         ![idx].raised = IF r.kind = "raise" THEN <<r.msg>> ELSE @]
             /\ IF r.kind = "raise"
                THEN /\ outcome' = EngineErrorOutcome(url, r.msg)
                     /\ tpc' = "DONE"
                ELSE /\ tpc' = "VERIFYING"
                     /\ UNCHANGED outcome
    /\ UNCHANGED <<prog, auxVars, retryVars, clsVars, probeVars, poolVars, optsVars, args, excel, mpc, df, idx, rows, ok_count,
                   report, ydl_opts, existing, probed, run, prev>>

\* lines 179-187: locate the final artifact
TaskVerify ==
    /\ prog = "batch" /\ tpc = "VERIFYING"
    /\ LET final_stem == Strip(df[idx].internal_penalty_id)
           desired_mp4 == PathJoin(OutputDir, final_stem \o Mp4)
       IN  \E listing \in Listings(fs, EnsureFolder(desired_mp4), EnsureStem(desired_mp4)) :
             outcome' = VerifyOutcome(fs, EnsureMp4FinalPath(fs, desired_mp4, listing))
    /\ tpc' = "DONE"
    /\ UNCHANGED <<prog, auxVars, retryVars, clsVars, fs, probeVars, poolVars, optsVars, args, excel, mpc, df, idx, rows, ok_count,
                   report, ydl_opts, existing, ecalls, probed, run, prev>>

\* lines 278-293: download_one returned; tally, append the report row, go on
RowEnd ==
    /\ prog = "batch" /\ tpc = "DONE"
    /\ ok_count' = ok_count + (IF outcome.status = "OK" THEN 1 ELSE 0)
    /\ rows' = Append(rows, ReportRow(df[idx], outcome))
    /\ idx' = idx + 1
    /\ tpc' = "IDLE"
    /\ outcome' = None /\ existing' = None /\ ydl_opts' = None
    /\ UNCHANGED <<prog, auxVars, retryVars, clsVars, fs, probeVars, poolVars, optsVars, args, excel, mpc, df, report, ecalls,
                   probed, run, prev>>

\* line 295
fail_count == Len(df) - ok_count

\* the exit status of the process once main has ended: sys.exit(1) at line
\* 242, 1 for an exception nothing catches, 0 when main returns
ExitStatus == IF mpc = "exit0" THEN 0 ELSE 1

\* lines 295-311: the loop is over; write the report and return
MainReport ==
    /\ prog = "batch" /\ mpc = "loop" /\ tpc = "IDLE" /\ idx > Len(df)
    /\ report' = <<rows>>
    /\ mpc' = "exit0"
    /\ UNCHANGED <<prog, auxVars, retryVars, clsVars, fs, probeVars, poolVars, optsVars, args, excel, df, idx, rows, ok_count, tpc,
                   ydl_opts, existing, outcome, ecalls, probed, run, prev>>

\* the same command is run a second time on the directory the first run left
SecondRun ==
    /\ prog = "batch" /\ mpc = "exit0" /\ run = 1
    /\ run' = 2
    /\ prev' = [i \in 1..Len(rows) |->
                   [status |-> rows[i].status, filepath |-> rows[i].filepath,
                    accepted |-> ProberAccepts(fs, rows[i].internal_penalty_id,
                                               rows[i].filepath)]]
    /\ mpc' = "read" /\ df' = <<>> /\ idx' = 0 /\ rows' = <<>> /\ ok_count' = 0
    /\ report' = None /\ ecalls' = <<>> /\ probed' = <<>>
    /\ UNCHANGED <<prog, auxVars, retryVars, clsVars, fs, probeVars, poolVars, optsVars, args, excel, tpc, ydl_opts, existing, outcome>>

NextBatch ==
    \/ MainRead
    \/ RowStart
    \/ TaskProbe
    \/ TaskExtract
    \/ TaskDownload
    \/ TaskVerify
    \/ RowEnd
    \/ MainReport
    \/ SecondRun

SpecBatch == InitBatch /\ [][NextBatch]_vars

-----------------------------------------------------------------------------
(* URL classifier: get_url_info under lru_cache(maxsize=128) *)

maxsize == 128

\* urlparse(url) raises ValueError on a malformed netloc; parse_qs keeps the
\* parameters whose value is not blank
ParseQsKeys(url) == { url.query[i][1] : i \in { j \in 1..Len(url.query) : url.query[j][2] # "" } }

\* the fallback of get_url_info: urlparse, parse_qs, 'list' in query_params
Fallback(url) ==
    IF url.malformed THEN [raises |-> TRUE, error |-> "ValueError"]
    ELSE [raises |-> FALSE, is_playlist |-> "list" \in ParseQsKeys(url), info |-> <<>>]

\* what the engine can answer to the flat, first-item-only inspection
InspectOutcomes ==
    { [kind |-> "raise"], [kind |-> "none"],
      [kind |-> "info", type |-> "playlist"], [kind |-> "info", type |-> "video"] }

\* the body of get_url_info, given the engine's answer r
GetUrlInfo(url, r) ==
    IF r.kind = "info"
    THEN [raises |-> FALSE, is_playlist |-> (r.type = "playlist"), info |-> <<r.type>>]
    ELSE Fallback(url)

CacheHit(c, url) == \E i \in 1..Len(c) : c[i].key = url
CacheIndex(c, url) == CHOOSE i \in 1..Len(c) : c[i].key = url

\* the sequence c without its i-th element
RemoveAt(c, i) == SubSeq(c, 1, i - 1) \o SubSeq(c, i + 1, Len(c))

\* lru_cache: a hit returns the stored value and makes the entry the most
\* recent; a miss calls the function, stores its result unless it raised,
\* and evicts the least recent entry when the cache is full
CachedGetUrlInfo(c, url, r) ==
    IF CacheHit(c, url)
    THEN [value |-> c[CacheIndex(c, url)].value,
          cache |-> Append(RemoveAt(c, CacheIndex(c, url)), c[CacheIndex(c, url)]),
          inspected |-> FALSE]
    ELSE LET v == GetUrlInfo(url, r)
         IN  [value |-> v,
              cache |-> IF v.raises THEN c
                        ELSE IF Len(c) >= maxsize
                             THEN Append(Tail(c), [key |-> url, value |-> v])
                             ELSE Append(c, [key |-> url, value |-> v]),
              inspected |-> TRUE]

-----------------------------------------------------------------------------
(* download_single_video *)

\* format selector of the video mode, as selector tokens
FmtVideo1080 == <<"bestvideo[height<=1080]", "+", "bestaudio", "/",
                  "best[height<=1080]", "/", "best">>
FmtAudio == <<"bestaudio", "/", "best">>

\* variant: the merge hint is set whatever the mode
SingleVideoOpts_MergeAlways(audio) ==
    [ format |-> IF audio THEN FmtAudio ELSE FmtVideo1080,
      file_extension |-> IF audio THEN "mp3" ELSE "mp4",
      postprocessors |->
          IF audio
          THEN << [key |-> "FFmpegExtractAudio", preferredcodec |-> "mp3",
                   preferredquality |-> "192"] >>
          ELSE << [key |-> "FFmpegVideoConvertor", preferedformat |-> "mp4"] >>,
      ignoreerrors |-> TRUE,
      noplaylist |-> FALSE,
      merge_output_format |-> <<"mp4">> ]

\* lines 134-180: the options handed to the engine
SingleVideoOpts(audio) ==
    [ format |-> IF audio THEN FmtAudio ELSE FmtVideo1080,
      file_extension |-> IF audio THEN "mp3" ELSE "mp4",
      postprocessors |->
          IF audio
          THEN << [key |-> "FFmpegExtractAudio", preferredcodec |-> "mp3",
                   preferredquality |-> "192"] >>
          ELSE << [key |-> "FFmpegVideoConvertor", preferedformat |-> "mp4"] >>,
      ignoreerrors |-> TRUE,
      noplaylist |-> FALSE,
      merge_output_format |-> IF audio THEN None ELSE <<"mp4">> ]

\* lines 190-201: the output template
OutTmpl(is_playlist, file_extension) ==
    IF is_playlist
    THEN <<"%(playlist_title)s", "/", "%(playlist_index)s-%(title)s.", file_extension>>
    ELSE <<"%(title)s.", file_extension>>

\* the titles the engine can report for an item
Titles == {"A", "B"}

\* the file name the engine makes of an output template for an item whose
\* title fields read title (the per-entry index of a playlist is left open)
ExpandTemplate(tmpl, title) ==
    [i \in 1..Len(tmpl) |->
        IF tmpl[i] = "%(title)s." THEN title \o "."
        ELSE IF tmpl[i] = "%(playlist_title)s" THEN title
        ELSE IF tmpl[i] = "%(playlist_index)s-%(title)s." THEN "%(playlist_index)s-" \o title \o "."
        ELSE tmpl[i]]

\* what ydl.extract_info(url, download=False) can answer inside the task
TaskExtractOutcomes ==
    { [kind |-> "raise", msg |-> m] : m \in EngineMsgs }
      \cup { [kind |-> "none"],
             [kind |-> "info", type |-> "playlist", entries |-> 0, title |-> "A"] }
      \cup { [kind |-> "info", type |-> "video", entries |-> 0, title |-> ti] :
                ti \in Titles }
      \cup { [kind |-> "info", type |-> "playlist", entries |-> 2, title |-> ti] :
                ti \in Titles }

\* what ydl.download([url]) can do: raise, or return (with ignoreerrors the
\* engine also returns when the transfer failed) with or without a final
\* artifact on disk
TaskDownloadOutcomes ==
    { [kind |-> "raise", msg |-> m, artifact |-> FALSE] : m \in EngineMsgs }
      \cup { [kind |-> "return", artifact |-> b] : b \in BOOLEAN }

\* the dicts download_single_video returns
ResNoInfo(url, thread_id) ==
    [ url |-> url, success |-> FALSE,
      message |-> [text |-> "Failed to extract video information. Video may be private or unavailable.",
                   thread |-> thread_id] ]

ResEmptyPlaylist(url, thread_id) ==
    [ url |-> url, success |-> FALSE,
      message |-> [text |-> "Playlist appears to be empty or private", thread |-> thread_id] ]

ResCompleted(url, thread_id, audio, info) ==
    IF info.type = "playlist"
    THEN [ url |-> url, success |-> TRUE,
           message |-> [text |-> "Playlist download completed!", thread |-> thread_id,
                        count |-> info.entries, what |-> IF audio THEN "MP3s" ELSE "videos"] ]
    ELSE [ url |-> url, success |-> TRUE,
           message |-> [text |-> "download completed successfully!", thread |-> thread_id,
                        what |-> IF audio THEN "Audio" ELSE "Video"] ]

ResError(url, thread_id, e) ==
    [ url |-> url, success |-> FALSE,
      message |-> [text |-> "Error", thread |-> thread_id, detail |-> e] ]

-----------------------------------------------------------------------------
(* The world of the pool program *)

MaxUrls == 2
MaxWorkers == 2

UrlVideo == [text |-> "https://youtu.be/abc", query |-> <<>>, malformed |-> FALSE]
UrlBad   == [text |-> "https://youtube.com]/watch?v=abc",
             query |-> << <<"v", "abc">> >>, malformed |-> TRUE]
PoolUrls == {UrlVideo, UrlBad}

NewTask(url) ==
    [ st |-> "unsubmitted", url |-> url, ydl_opts |-> None, is_playlist |-> FALSE,
      info |-> None, target |-> None, result |-> None, artifact |-> FALSE ]

-----------------------------------------------------------------------------
(* Program "pool": download_youtube_content *)

InitPool ==
    /\ prog = "pool"
    /\ IdleProbe /\ IdleBatch /\ IdleOpts /\ IdleCls /\ IdleRetry /\ IdleAux
    /\ fs = <<>>
    /\ urls \in UNION { [1..n -> PoolUrls] : n \in 1..MaxUrls }
    /\ max_workers \in 1..MaxWorkers
    /\ audio_only \in BOOLEAN
    /\ cache = <<>>
    /\ dpc = "classify" /\ nclassified = 0
    /\ tasks = [t \in 1..Len(urls) |-> NewTask(urls[t])]
    /\ finished = <<>> /\ snap = {} /\ results = <<>>
    /\ hist = [t \in 1..Len(urls) |-> <<>>]

\* lines 285-287: is_playlist_url on every url, in order; an exception of
\* get_url_info leaves download_youtube_content
Classify ==
    /\ prog = "pool" /\ dpc = "classify"
    /\ IF nclassified = Len(urls)
       THEN /\ dpc' = "submit"
            /\ UNCHANGED <<cache, nclassified>>
       ELSE \E r \in InspectOutcomes :
              LET c == CachedGetUrlInfo(cache, urls[nclassified + 1], r)
              IN  /\ cache' = c.cache
                  /\ IF c.value.raises
                     THEN dpc' = "raised" /\ UNCHANGED nclassified
                     ELSE nclassified' = nclassified + 1 /\ UNCHANGED dpc
    /\ UNCHANGED <<prog, auxVars, retryVars, clsVars, fs, probeVars, batchVars, optsVars, urls, max_workers, audio_only,
                   tasks, finished, snap, results, hist>>

Unsubmitted == { t \in DOMAIN tasks : tasks[t].st = "unsubmitted" }
Queued      == { t \in DOMAIN tasks : tasks[t].st = "queued" }
Running     == { t \in DOMAIN tasks : tasks[t].st \in {"extract", "download"} }
Finished    == { t \in DOMAIN tasks : tasks[t].st \in {"done", "raised"} }

MinOf(S) == CHOOSE t \in S : \A u \in S : t <= u

\* lines 300-304: executor.submit for the next url, in input order; once the
\* last one is submitted, as_completed is called and notes which futures
\* have already finished
Submit ==
    /\ prog = "pool" /\ dpc = "submit"
    /\ IF Unsubmitted # {}
       THEN /\ tasks' = [tasks EXCEPT ![MinOf(Unsubmitted)].st = "queued"]
            /\ UNCHANGED <<dpc, snap>>
       ELSE /\ dpc' = "collect"
            /\ snap' = Finished
            /\ UNCHANGED tasks
    /\ UNCHANGED <<prog, auxVars, retryVars, clsVars, fs, probeVars, batchVars, optsVars, urls, max_workers, audio_only,
                   cache, nclassified, finished, results, hist>>

\* variant: the executor is created without its max_workers argument
WorkerFree_Unbounded == TRUE

\* ThreadPoolExecutor(max_workers=max_workers): a worker thread is idle
WorkerFree == Cardinality(Running) < max_workers

\* a worker thread takes the oldest queued work item when fewer than
\* max_workers tasks run; lines 134-201 of download_single_video
TaskStart ==
    /\ prog = "pool" /\ Queued # {} /\ WorkerFree
    /\ LET t == MinOf(Queued)
       IN  \E r \in InspectOutcomes :
             LET c == CachedGetUrlInfo(cache, tasks[t].url, r)
                 o == SingleVideoOpts(audio_only)
             IN  /\ cache' = c.cache
                 /\ IF c.value.raises
                    THEN /\ tasks' = [tasks EXCEPT ![t].st = "raised"]
                         /\ finished' = Append(finished, t)
                    ELSE /\ tasks' = [tasks EXCEPT
                                ![t].st = "extract",
                                ![t].is_playlist = c.value.is_playlist,
                                ![t].ydl_opts =
                                    [outtmpl |-> OutTmpl(c.value.is_playlist, o.file_extension)]
                                      @@ o]
                         /\ UNCHANGED finished
    /\ UNCHANGED <<prog, auxVars, retryVars, clsVars, fs, probeVars, batchVars, optsVars, urls, max_workers, audio_only,
                   dpc, nclassified, snap, results, hist>>

\* variant: a failed task cancels the work items still queued
FinishCancelling(t, res, artifact) ==
    /\ tasks' = [u \in DOMAIN tasks |->
                   IF u = t
                   THEN [tasks[u] EXCEPT !.st = "done", !.result = res, !.artifact = artifact]
                   ELSE IF ~res.success /\ tasks[u].st = "queued"
                        THEN [tasks[u] EXCEPT !.st = "done",
                                              !.result = ResError(tasks[u].url, u, "cancelled")]
                        ELSE tasks[u]]
    /\ finished' = Append(finished, t)

\* the future of task t is set to result res
Finish(t, res, artifact) ==
    /\ tasks' = [tasks EXCEPT ![t].st = "done", ![t].result = res, ![t].artifact = artifact]
    /\ finished' = Append(finished, t)

\* lines 203-228 and 246-251: the fresh metadata extraction
TaskExtractInfo ==
    /\ prog = "pool"
    /\ \E t \in DOMAIN tasks :
         /\ tasks[t].st = "extract"
         /\ \E r \in TaskExtractOutcomes :
              /\ hist' = [hist EXCEPT ![t] = Append(@, r)]
              /\ CASE r.kind = "raise" -> Finish(t, ResError(tasks[t].url, t, r.msg), FALSE)
                   [] r.kind = "none" -> Finish(t, ResNoInfo(tasks[t].url, t), FALSE)
                   [] r.kind = "info" /\ r.type = "playlist" /\ r.entries = 0 ->
                         Finish(t, ResEmptyPlaylist(tasks[t].url, t), FALSE)
                   [] OTHER ->
                         /\ tasks' = [tasks EXCEPT
                                ![t].st = "download", ![t].info = r,
                                ![t].target = ExpandTemplate(tasks[t].ydl_opts.outtmpl, r.title)]
                         /\ UNCHANGED finished
    /\ UNCHANGED <<prog, auxVars, retryVars, clsVars, fs, probeVars, batchVars, optsVars, urls, max_workers, audio_only,
                   cache, dpc, nclassified, snap, results>>

\* lines 230-251: the transfer and the returned dict
TaskTransfer ==
    /\ prog = "pool"
    /\ \E t \in DOMAIN tasks :
         /\ tasks[t].st = "download"
         /\ \E r \in TaskDownloadOutcomes :
              /\ hist' = [hist EXCEPT ![t] = Append(@, r)]
              /\ IF r.kind = "raise"
                 THEN Finish(t, ResError(tasks[t].url, t, r.msg), r.artifact)
                 ELSE Finish(t, ResCompleted(tasks[t].url, t, audio_only, tasks[t].info),
                             r.artifact)
    /\ UNCHANGED <<prog, auxVars, retryVars, clsVars, fs, probeVars, batchVars, optsVars, urls, max_workers, audio_only,
                   cache, dpc, nclassified, snap, results>>

\* the futures already handed to the loop
Yielded == { t \in DOMAIN tasks :
               \E i \in 1..Len(results) : results[i].message.thread = t }

\* the futures as_completed may yield next: any of those it found finished
\* when it was called, and after them the others in the order they finish
NextYield ==
    IF snap \ Yielded # {} THEN snap \ Yielded
    ELSE LET late == { i \in 1..Len(finished) : finished[i] \notin snap \cup Yielded }
         IN  IF late = {} THEN {} ELSE { finished[MinOf(late)] }

\* variant: the loop ends as soon as no finished future is left to yield
LoopOver_NoWait == NextYield = {}

\* as_completed is exhausted: every future has been yielded
LoopOver == Cardinality(Yielded) = Len(urls)

\* lines 307-310: one turn of the collection loop; future.result() re-raises
\* what the task raised
Collect ==
    /\ prog = "pool" /\ dpc = "collect"
    /\ IF LoopOver
       THEN /\ dpc' = "summary"
            /\ UNCHANGED results
       ELSE \E t \in NextYield :
              IF tasks[t].st = "raised"
              THEN dpc' = "raised" /\ UNCHANGED results
              ELSE results' = Append(results, tasks[t].result) /\ UNCHANGED dpc
    /\ UNCHANGED <<prog, auxVars, retryVars, clsVars, fs, probeVars, batchVars, optsVars, urls, max_workers, audio_only,
                   cache, nclassified, tasks, finished, snap, hist>>

NextPool ==
    \/ Classify
    \/ Submit
    \/ TaskStart
    \/ TaskExtractInfo
    \/ TaskTransfer
    \/ Collect

SpecPool == InitPool /\ [][NextPool]_vars

\* the pool's threads and the main thread keep running, and every engine
\* call returns or raises
FairPool == SpecPool /\ WF_vars(NextPool)

-----------------------------------------------------------------------------
(* Program "probe": calls of find_existing_asset on arbitrary directories *)

InitProbe ==
    /\ prog = "probe"
    /\ IdleBatch /\ IdlePool /\ IdleOpts /\ IdleCls /\ IdleRetry /\ IdleAux
    /\ fs \in DirsOver(ProbeNames)
    /\ pstem = None /\ plisting = <<>> /\ presult = None
    /\ pfsBefore = fs /\ pcalled = FALSE

ProbeCall ==
    /\ prog = "probe"
    /\ ~pcalled
    /\ \E stem \in Ids :
         \E listing \in Listings(fs, OutputDir, stem) :
            /\ pstem' = stem
            /\ plisting' = listing
            /\ presult' = FindExistingAsset(fs, listing)
            /\ fs' = FsAfterProbe(fs, listing)
    /\ pfsBefore' = fs
    /\ pcalled' = TRUE
    /\ UNCHANGED <<prog, auxVars, retryVars, clsVars, batchVars, poolVars, optsVars>>

NextProbe == ProbeCall

SpecProbe == InitProbe /\ [][NextProbe]_vars

-----------------------------------------------------------------------------
(* Program "opts": one negotiation of the options handed to the engine, by
   build_ydl_opts or by download_single_video *)

AllArgs ==
    [ cookie_file : {None, <<"cookies.txt">>}, cookie_exists : BOOLEAN,
      browser : {None, <<"chrome">>}, profile : {None, <<"Default">>},
      no_max_quality_mp4 : BOOLEAN, have_ffmpeg : BOOLEAN ]

InitOpts ==
    /\ prog = "opts"
    /\ IdleProbe /\ IdleBatch /\ IdlePool /\ IdleCls /\ IdleRetry /\ IdleAux
    /\ fs = <<>>
    /\ nargs \in AllArgs
    /\ naudio \in BOOLEAN
    /\ nstem \in Ids
    /\ handed = None

\* main, lines 269-276: the options of one row
NegotiateBatch ==
    /\ prog = "opts" /\ handed = None
    /\ handed' = [via |-> "build_ydl_opts", audio |-> FALSE,
                  opts |-> BuildYdlOpts(nargs, OutputDir, nstem)]
    /\ UNCHANGED <<prog, auxVars, retryVars, clsVars, fs, probeVars, batchVars, poolVars, nargs, naudio, nstem>>

\* download_single_video, lines 134-180: the options of one task
NegotiateSingle ==
    /\ prog = "opts" /\ handed = None
    /\ handed' = [via |-> "download_single_video", audio |-> naudio,
                  opts |-> [raises |-> FALSE] @@ SingleVideoOpts(naudio)]
    /\ UNCHANGED <<prog, auxVars, retryVars, clsVars, fs, probeVars, batchVars, poolVars, nargs, naudio, nstem>>

NextOpts == NegotiateBatch \/ NegotiateSingle

SpecOpts == InitOpts /\ [][NextOpts]_vars

-----------------------------------------------------------------------------
(* Program "cls": a process that calls get_url_info again and again *)

\* how many other distinct urls are classified after the first one
MaxFill == 129
\* how many times the first url is classified again
MaxAgain == 2

UrlList == [text |-> "https://www.youtube.com/watch",
            query |-> << <<"v", "abc">>, <<"list", "PL1">> >>, malformed |-> FALSE]
UrlBlankList == [text |-> "https://www.youtube.com/watch",
                 query |-> << <<"v", "abc">>, <<"list", "">> >>, malformed |-> FALSE]
ClsUrls == {UrlVideo, UrlBad, UrlList, UrlBlankList}

DigitStr == <<"0", "1", "2", "3", "4", "5", "6", "7", "8", "9">>

\* the k-th of a series of distinct urls: .../watch?a=<hundreds>&b=<tens>&c=<units>
FillerUrl(k) ==
    [text |-> "https://www.youtube.com/watch",
     query |-> << <<"a", DigitStr[(k \div 100) + 1]>>,
                  <<"b", DigitStr[((k \div 10) % 10) + 1]>>,
                  <<"c", DigitStr[(k % 10) + 1]>> >>,
     malformed |-> FALSE]

\* the engine's answer to the inspection of the urls of the series
FillerAnswers == { [kind |-> "info", type |-> "video"] }

\* one call get_url_info(url) in this process, the engine answering r
ClsCall(url, r, again) ==
    LET c == CachedGetUrlInfo(ccache, url, r)
    IN  /\ ccache' = c.cache
        /\ clast' = [url |-> url, value |-> c.value, inspected |-> c.inspected,
                     again |-> again,
                     answer |-> IF c.inspected THEN <<r>> ELSE <<>>]

InitCls ==
    /\ prog = "cls"
    /\ IdleProbe /\ IdleBatch /\ IdlePool /\ IdleOpts /\ IdleRetry /\ IdleAux
    /\ fs = <<>>
    /\ ccache = <<>> /\ cwatch = None /\ cnfill = 0 /\ cnagain = 0 /\ clast = None

\* the first call of the process
ClassifyFirst ==
    /\ prog = "cls" /\ cwatch = None
    /\ \E url \in ClsUrls, r \in InspectOutcomes :
         /\ ClsCall(url, r, FALSE)
         /\ cwatch' = IF CachedGetUrlInfo(ccache, url, r).value.raises THEN None
                      ELSE [url |-> url, value |-> CachedGetUrlInfo(ccache, url, r).value]
    /\ UNCHANGED <<prog, auxVars, retryVars, fs, probeVars, batchVars, poolVars, optsVars, cnfill, cnagain>>

\* a call for the next url of the series
ClassifyFiller ==
    /\ prog = "cls" /\ cwatch # None /\ cnagain = 0 /\ cnfill < MaxFill
    /\ \E r \in FillerAnswers : ClsCall(FillerUrl(cnfill + 1), r, FALSE)
    /\ cnfill' = cnfill + 1
    /\ UNCHANGED <<prog, auxVars, retryVars, fs, probeVars, batchVars, poolVars, optsVars, cwatch, cnagain>>

\* a later call for the first url
ClassifyAgain ==
    /\ prog = "cls" /\ cwatch # None /\ cnagain < MaxAgain
    /\ \E r \in InspectOutcomes : ClsCall(cwatch.url, r, TRUE)
    /\ cnagain' = cnagain + 1
    /\ UNCHANGED <<prog, auxVars, retryVars, fs, probeVars, batchVars, poolVars, optsVars, cwatch, cnfill>>

NextCls == ClassifyFirst \/ ClassifyFiller \/ ClassifyAgain

SpecCls == InitCls /\ [][NextCls]_vars

-----------------------------------------------------------------------------
-----------------------------------------------------------------------------
(* The engine's retry loop asking build_ydl_opts's retry_sleep_functions how
   long to sleep before retry n *)

\* Python's min of two numbers
Min(a, b) == IF a <= b THEN a ELSE b

\* variant: the sleeps are not capped
retry_sleep_functions_NoCeiling(class, n) ==
    CASE class = "http" -> 5 * n
      [] class = "fragment" -> 2 * n
      [] class = "extractor" -> 2 * n

\* lines 91-95: "retry_sleep_functions"
retry_sleep_functions(class, n) ==
    CASE class = "http" -> Min(5 * n, 30)
      [] class = "fragment" -> Min(2 * n, 10)
      [] class = "extractor" -> Min(2 * n, 10)

MaxAttempts == 20
ErrorClasses == {"http", "fragment", "extractor"}

InitRetry ==
    /\ prog = "retry"
    /\ IdleProbe /\ IdleBatch /\ IdlePool /\ IdleOpts /\ IdleCls /\ IdleAux
    /\ fs = <<>>
    /\ rclass \in ErrorClasses
    /\ rfirst \in {0, 1}
    /\ rslept = <<>>

\* the engine asks for the sleep before its next retry
RetrySleep ==
    /\ prog = "retry" /\ Len(rslept) < MaxAttempts
    /\ rslept' = Append(rslept, retry_sleep_functions(rclass, rfirst + Len(rslept)))
    /\ UNCHANGED <<prog, auxVars, fs, probeVars, batchVars, poolVars, optsVars, clsVars,
                   rclass, rfirst>>

NextRetry == RetrySleep

SpecRetry == InitRetry /\ [][NextRetry]_vars

-----------------------------------------------------------------------------
(* Program "parse": parse_multiple_urls of download.py *)

\* the characters the pattern [,\s\n\t]+ matches
IsSeparator(c) == c \in {",", " ", "\n", "\t", "\r", "\f"}

\* the characters str.strip() removes
IsWhitespace(c) == c \in {" ", "\n", "\t", "\r", "\f"}

\* str.strip() on the input string
StripWhitespace(s) ==
    LET I == { i \in 1..Len(s) : ~IsWhitespace(s[i]) }
    IN  IF I = {} THEN <<>>
        ELSE SubSeq(s, CHOOSE i \in I : \A j \in I : i <= j,
                       CHOOSE i \in I : \A j \in I : j <= i)

\* re.split(r'[,\s\n\t]+', s) from position i on, cur being the piece read so
\* far: a run of separators ends the piece, also an empty one at either end
RECURSIVE ReSplitFrom(_, _, _)
ReSplitFrom(s, i, cur) ==
    IF i > Len(s) THEN <<cur>>
    ELSE IF IsSeparator(s[i])
         THEN LET rest == { j \in (i + 1)..Len(s) : ~IsSeparator(s[j]) }
                  next == IF rest = {} THEN Len(s) + 1
                          ELSE CHOOSE j \in rest : \A k \in rest : j <= k
              IN  <<cur>> \o ReSplitFrom(s, next, <<>>)
         ELSE ReSplitFrom(s, i + 1, Append(cur, s[i]))

ReSplit(s) == ReSplitFrom(s, 1, <<>>)

YoutubeCom == <<"y","o","u","t","u","b","e",".","c","o","m">>
YoutuBe == <<"y","o","u","t","u",".","b","e">>

\* variant: only the long host name is recognised
IsYoutubeUrl_ComOnly(url) == Contains(url, YoutubeCom)

\* line 88: 'youtube.com' in url or 'youtu.be' in url
IsYoutubeUrl(url) == Contains(url, YoutubeCom) \/ Contains(url, YoutuBe)

\* "[url.strip() for url in urls if url.strip()]"
RECURSIVE NonEmptyStripped(_)
NonEmptyStripped(pieces) ==
    IF pieces = <<>> THEN <<>>
    ELSE IF StripWhitespace(Head(pieces)) # <<>>
         THEN <<StripWhitespace(Head(pieces))>> \o NonEmptyStripped(Tail(pieces))
         ELSE NonEmptyStripped(Tail(pieces))

\* lines 85-92: the validation loop over the tokens
RECURSIVE ValidateUrls(_)
ValidateUrls(tokens) ==
    IF tokens = <<>> THEN [valid_urls |-> <<>>, invalid_count |-> 0]
    ELSE LET rest == ValidateUrls(Tail(tokens))
             url == Head(tokens)
         IN  IF IsYoutubeUrl(url)
             THEN [rest EXCEPT !.valid_urls = <<url>> \o @]
             ELSE IF url # <<>>
                  THEN [rest EXCEPT !.invalid_count = @ + 1]
                  ELSE rest

\* parse_multiple_urls(input_string): the list returned and invalid_count
ParseMultipleUrls(input_string) ==
    ValidateUrls(NonEmptyStripped(ReSplit(StripWhitespace(input_string))))

\* the pieces the input strings are made of
MaxPieces == 5
InputPieces ==
    { <<",">>, <<" ">>, <<"\n">>,
      <<"y","o","u","t","u",".","b","e","/","a">>,
      <<"y","o","u","t","u","b","e",".","c","o","m","/","b">>,
      <<"v","i","m","e","o",".","c","o","m">>,
      <<"y","o","u","t","u">>, <<".","b","e">> }

RECURSIVE Concat(_)
Concat(ps) == IF ps = <<>> THEN <<>> ELSE Head(ps) \o Concat(Tail(ps))

InputStrings == { Concat(ps) : ps \in UNION { [1..n -> InputPieces] : n \in 0..MaxPieces } }

InitParse ==
    /\ prog = "parse"
    /\ IdleProbe /\ IdleBatch /\ IdlePool /\ IdleOpts /\ IdleCls /\ IdleRetry
    /\ IdleFetch /\ IdleEntry
    /\ fs = <<>>
    /\ uinput \in InputStrings
    /\ uresult = None

ParseCall ==
    /\ prog = "parse" /\ uresult = None
    /\ uresult' = <<ParseMultipleUrls(uinput)>>
    /\ UNCHANGED <<prog, fs, probeVars, batchVars, poolVars, optsVars, clsVars, retryVars,
                   fetchVars, entryVars, uinput>>

NextParse == ParseCall

SpecParse == InitParse /\ [][NextParse]_vars

\* ---------------------------------------------------------------------------
\* Program "fetch": jugadores.py fetch_profile, one request per step, the
\* server's responses drawn from Responses.
\* ---------------------------------------------------------------------------

MaxRetries == 3

\* backoff, in tenths of a second (the default 1.5)
Backoff == 15

Digits == {"0", "1", "2", "3", "4", "5", "6", "7", "8", "9"}

DigitVal(c) ==
    CASE c = "0" -> 0 [] c = "1" -> 1 [] c = "2" -> 2 [] c = "3" -> 3
      [] c = "4" -> 4 [] c = "5" -> 5 [] c = "6" -> 6 [] c = "7" -> 7
      [] c = "8" -> 8 [] c = "9" -> 9

RECURSIVE DecimalValue(_)
DecimalValue(s) ==
    IF s = <<>> THEN 0
    ELSE 10 * DecimalValue(SubSeq(s, 1, Len(s) - 1)) + DigitVal(s[Len(s)])

AllDigits(s) == s # <<>> /\ \A i \in 1..Len(s) : s[i] \in Digits

HasSign(s) == s # <<>> /\ s[1] \in {"+", "-"}

Unsigned(s) == IF HasSign(s) THEN Tail(s) ELSE s

\* float(reset): a record [kind, neg, val]; kind "error" is the ValueError,
\* val is in tenths of a second
PyFloat(s) ==
    LET u   == Unsigned(s)
        neg == HasSign(s) /\ s[1] = "-"
    IN  IF u = <<"n", "a", "n">> THEN [kind |-> "nan", neg |-> neg, val |-> 0]
        ELSE IF u = <<"i", "n", "f">> THEN [kind |-> "inf", neg |-> neg, val |-> 0]
        ELSE IF AllDigits(u)
             THEN [kind |-> "num", neg |-> neg,
                   val |-> IF neg THEN 0 - 10 * DecimalValue(u) ELSE 10 * DecimalValue(u)]
        ELSE [kind |-> "error", neg |-> FALSE, val |-> 0]

\* max(float(reset), backoff * attempt): the first argument unless the
\* second compares greater, and nothing compares greater than nan
PyMaxFloat(f, b) ==
    CASE f.kind = "nan" -> f
      [] f.kind = "inf" -> IF f.neg THEN [kind |-> "num", neg |-> FALSE, val |-> b] ELSE f
      [] OTHER -> IF b > f.val THEN [kind |-> "num", neg |-> FALSE, val |-> b] ELSE f

\* the wait after a 429: except Exception covers the float() only
WaitAfter429(reset, attempt) ==
    LET f == PyFloat(reset)
    IN  IF f.kind = "error"
        THEN [kind |-> "num", neg |-> FALSE, val |-> Backoff * attempt]
        ELSE PyMaxFloat(f, Backoff * attempt)

\* time.sleep(wait_s) raises ValueError on nan and on a negative number,
\* OverflowError on infinity
SleepRaises(w) == w.kind \in {"nan", "inf"} \/ w.val < 0

ResetHeaders ==
    { <<>>, <<"2">>, <<"6", "0">>, <<"-", "5">>, <<"a", "b", "c">>,
      <<"n", "a", "n">>, <<"i", "n", "f">> }

\* the body of a 200: whether resp.json() parses it, and the list it holds
\* under "response"
Bodies ==
    { [json |-> FALSE, response |-> <<>>],
      [json |-> TRUE, response |-> <<>>],
      [json |-> TRUE,
       response |-> <<[id |-> 7, name |-> "N", firstname |-> "F", lastname |-> "L"]>>] }

NoBody == [json |-> FALSE, response |-> <<>>]

Responses ==
    [status : {429}, reset : ResetHeaders, body : {NoBody}]
        \cup [status : {500, 503, 204, 301, 404}, reset : {<<>>}, body : {NoBody}]
        \cup [status : {200}, reset : {<<>>}, body : Bodies]

Retriable(r) == r.status = 429 \/ r.status >= 500

InitFetch ==
    /\ prog = "fetch"
    /\ fs = <<>>
    /\ fmax \in 0..MaxRetries
    /\ fhist = <<>>
    /\ fpc = "call"
    /\ fret = <<>>
    /\ IdleProbe /\ IdleBatch /\ IdlePool /\ IdleOpts /\ IdleCls
    /\ IdleRetry /\ IdleParse /\ IdleEntry

\* entering the loop: range(1, max_retries + 1) is empty when max_retries < 1
FetchCall ==
    /\ prog = "fetch"
    /\ fpc = "call"
    /\ IF fmax < 1
       THEN fpc' = "returned"
       ELSE fpc' = "loop"
    /\ UNCHANGED <<prog, fs, probeVars, batchVars, poolVars, optsVars, clsVars,
                   retryVars, parseVars, entryVars, fmax, fhist, fret>>

\* one turn of the loop: the request, the server's response r, and
\* everything up to the next request or to the way out
FetchRequest ==
    /\ prog = "fetch"
    /\ fpc = "loop"
    /\ \E r \in Responses :
        LET attempt == Len(fhist) + 1
            wait    == IF r.status = 429
                       THEN WaitAfter429(r.reset, attempt)
                       ELSE [kind |-> "num", neg |-> FALSE, val |-> Backoff * attempt]
        IN  /\ fhist' = Append(fhist, r)
            /\ IF Retriable(r)
               THEN IF SleepRaises(wait)
                    THEN fpc' = "raised" /\ fret' = fret
                    ELSE IF attempt < fmax
                         THEN fpc' = "loop" /\ fret' = fret
                         ELSE fpc' = "returned" /\ fret' = None
               ELSE IF r.status # 200
                    THEN fpc' = "returned" /\ fret' = None
                    ELSE IF ~r.body.json
                         THEN fpc' = "raised" /\ fret' = fret
                         ELSE IF r.body.response = <<>>
                              THEN fpc' = "returned" /\ fret' = None
                              ELSE fpc' = "returned" /\ fret' = <<r.body.response[1]>>
    /\ UNCHANGED <<prog, fs, probeVars, batchVars, poolVars, optsVars, clsVars,
                   retryVars, parseVars, entryVars, fmax>>

NextFetch == FetchCall \/ FetchRequest

SpecFetch == InitFetch /\ [][NextFetch]_vars

\* ---------------------------------------------------------------------------
\* Program "entry": the interactive entry point of download.py, from the
\* parsed urls to the max_workers it passes to download_youtube_content.
\* ---------------------------------------------------------------------------

MaxEntryUrls == 4

Max(a, b) == IF a >= b THEN a ELSE b

\* int(workers_input) on a text of signs, digits, letters and dots: the
\* value on an optional sign followed by digits, a ValueError otherwise
PyInt(s) ==
    IF AllDigits(Unsigned(s))
    THEN [ok |-> TRUE,
          val |-> IF s[1] = "-" THEN 0 - DecimalValue(Unsigned(s))
                  ELSE DecimalValue(Unsigned(s))]
    ELSE [ok |-> FALSE, val |-> 0]

ClampWorkers_NoFloor(n) == Min(5, n)

\* max(1, min(5, max_workers))
ClampWorkers(n) == Max(1, Min(5, n))

\* max_workers as the entry point computes it from len(urls) and the text
\* typed at the prompt, which is asked only for more than one url
EntryMaxWorkers(nurls, text) ==
    IF nurls > 1
    THEN LET workers_input == StripWhitespace(text)
         IN  IF workers_input = <<>> THEN ClampWorkers(3)
             ELSE IF PyInt(workers_input).ok
                  THEN ClampWorkers(PyInt(workers_input).val)
                  ELSE 3
    ELSE 1

WorkerTexts ==
    { <<>>, <<" ">>, <<"0">>, <<"1">>, <<"2">>, <<"3">>, <<"5">>, <<"6">>,
      <<"9">>, <<"1", "2">>, <<"-", "2">>, <<"+", "4">>, <<" ", "4", " ">>,
      <<"a", "b", "c">>, <<"2", ".", "5">>, <<"7", ".", "5">>, <<"3", "x">>,
      <<"-">>, <<"4", " ", "4">> }

InitEntry ==
    /\ prog = "entry"
    /\ fs = <<>>
    /\ wnurls \in 1..MaxEntryUrls
    /\ wtext \in WorkerTexts
    /\ wbudget = <<>>
    /\ IdleProbe /\ IdleBatch /\ IdlePool /\ IdleOpts /\ IdleCls
    /\ IdleRetry /\ IdleParse /\ IdleFetch

\* from the prompt to the call of download_youtube_content
EntryStart ==
    /\ prog = "entry"
    /\ wbudget = <<>>
    /\ wbudget' = <<EntryMaxWorkers(wnurls, wtext)>>
    /\ UNCHANGED <<prog, fs, probeVars, batchVars, poolVars, optsVars, clsVars,
                   retryVars, parseVars, fetchVars, wnurls, wtext>>

NextEntry == EntryStart

SpecEntry == InitEntry /\ [][NextEntry]_vars

Init == InitProbe \/ InitBatch \/ InitPool \/ InitOpts \/ InitCls \/ InitRetry \/ InitParse \/ InitFetch \/ InitEntry
Next == NextProbe \/ NextBatch \/ NextPool \/ NextOpts \/ NextCls \/ NextRetry \/ NextParse \/ NextFetch \/ NextEntry
Spec == Init /\ [][Next]_vars

-----------------------------------------------------------------------------
(* Properties *)

Last(s) == s[Len(s)]

\* the outcome of row i of the current run, once download_one has returned
HasOutcome(i) == i <= Len(rows) \/ (i = idx /\ tpc = "DONE")
OutcomeOf(i) == IF i <= Len(rows) THEN rows[i] ELSE outcome

C2_Completeness ==
    prog = "pool" =>
        /\ dpc # "raised"
        /\ dpc = "summary" =>
              /\ Len(results) = Len(urls)
              /\ \A i \in 1..Len(results) :
                    /\ results[i].message.thread \in 1..Len(urls)
                    /\ results[i].url = urls[results[i].message.thread]
              /\ \A i, j \in 1..Len(results) :
                    i # j => results[i].message.thread # results[j].message.thread

\* what task t returns, from its own arguments and the engine's answers to
\* its own calls
ExpectedResult(t) ==
    LET h == hist[t]
        u == urls[t]
    IN  IF h[1].kind = "raise" THEN ResError(u, t, h[1].msg)
        ELSE IF h[1].kind = "none" THEN ResNoInfo(u, t)
        ELSE IF h[1].type = "playlist" /\ h[1].entries = 0 THEN ResEmptyPlaylist(u, t)
        ELSE IF h[2].kind = "raise" THEN ResError(u, t, h[2].msg)
        ELSE ResCompleted(u, t, audio_only, h[1])

\* task u turns failed in this step
FailsNow(u) ==
    /\ tasks[u].st # "done" /\ tasks'[u].st = "done"
    /\ ~tasks'[u].result.success

\* a step in which a task ends in failure changes no sibling task (its
\* state, its queue position, its engine history), and a queued task leaves
\* the queue only by being started
C3_IsolationStep ==
    /\ \A u \in DOMAIN tasks :
          FailsNow(u) => \A t \in DOMAIN tasks \ {u} :
                             tasks'[t] = tasks[t] /\ hist'[t] = hist[t]
    /\ \A t \in DOMAIN tasks :
          tasks[t].st = "queued" => tasks'[t].st \in {"queued", "extract", "raised"}

\* the result of a finished task is the one its own url and the engine's
\* answers to its own calls determine
C3_OwnOutcome ==
    \A t \in DOMAIN tasks :
        tasks[t].st = "done" =>
            /\ hist[t] # <<>>
            /\ (Len(hist[t]) = 1 =>
                   (hist[t][1].kind = "info" =>
                       (hist[t][1].type = "playlist" /\ hist[t][1].entries = 0)))
            /\ tasks[t].result = ExpectedResult(t)

\* whatever its siblings do, a queued task is started and runs to its end
C3_EveryTaskRuns ==
    \A t \in 1..MaxUrls :
        (t \in DOMAIN tasks /\ tasks[t].st = "queued")
            ~> (t \in DOMAIN tasks /\ tasks[t].st = "done" /\ hist[t] # <<>>)

\* C3: isolation of the pool's tasks: no step of a failing task touches a
\* sibling, every queued task is started and runs to its end, and every
\* result is the one the task's own url and engine answers determine.
C3_Isolation == [][C3_IsolationStep]_vars /\ []C3_OwnOutcome /\ C3_EveryTaskRuns

C3_Witness ==
    /\ prog = "pool" /\ Len(urls) = 2 /\ max_workers = 1
    /\ tasks[1].st = "done" /\ ~tasks[1].result.success
    /\ tasks[2].st = "done" /\ tasks[2].result.success

\* download_youtube_content has ended, by its summary or by an exception
Ended == dpc \in {"summary", "raised"}

\* whenever download_youtube_content has ended, every task it submitted is
\* finished and its result is in the result list, once
C4_Drained ==
    (prog = "pool" /\ Ended) =>
        /\ \A t \in DOMAIN tasks :
              tasks[t].st # "unsubmitted" =>
                  /\ tasks[t].st = "done"
                  /\ \E i \in 1..Len(results) : results[i] = tasks[t].result
        /\ Len(results) = Cardinality({ t \in DOMAIN tasks : tasks[t].st # "unsubmitted" })

C5_NoMergeWithoutMuxer ==
    (prog = "opts" /\ handed # None) =>
        ((~handed.opts.raises /\ ~nargs.have_ffmpeg /\ ~handed.audio) =>
            \A i \in 1..Len(handed.opts.format) : handed.opts.format[i] # "+")

C7_SkipFastPath ==
    prog = "batch" =>
        \A i \in DOMAIN probed :
            (probed[i] # <<>> /\ probed[i][1] # None) =>
                /\ ecalls[i] = NoCalls
                /\ HasOutcome(i)
                /\ OutcomeOf(i).status = "SKIPPED"
                /\ OutcomeOf(i).filepath = probed[i][1]
                /\ OutcomeOf(i).size_bytes = <<fs[BaseName(probed[i][1])]>>

C7_Witness ==
    /\ prog = "batch" /\ run = 1 /\ mpc = "exit0" /\ Len(rows) = 2
    /\ rows[1].status = "OK" /\ rows[2].status = "SKIPPED"
    /\ rows[2].size_bytes = <<5>>

\* C8 as stated: once the workbook is read, main is never stopped by a
\* condition of one row: it never ends other than by writing the report.
C8_BatchNeverStopped ==
    prog = "batch" => mpc # "crashed"

C10_VerifiedSuccess ==
    /\ prog = "batch" =>
          \A i \in DOMAIN ecalls :
              (HasOutcome(i) /\ OutcomeOf(i).status = "OK") =>
                  /\ PathExists(fs, OutcomeOf(i).filepath)
                  /\ GetSize(fs, OutcomeOf(i).filepath) > 0
    /\ prog = "pool" =>
          \A t \in DOMAIN tasks :
              (tasks[t].st = "done" /\ tasks[t].result.success) => tasks[t].artifact

\* C11 as stated: no call of get_url_info raises, whatever the url and
\* whatever the engine's inspection does.
C11_ClassifierNeverRaises ==
    (prog = "cls" /\ clast # None) => ~clast.value.raises

\* C12 as stated: a later call for a url already classified returns the
\* value of the first call without a new engine inspection, however many
\* other urls were classified in between.
C12_Memoized ==
    (prog = "cls" /\ clast # None /\ cwatch # None) =>
        (clast.again =>
            /\ ~clast.inspected
            /\ clast.value = cwatch.value)

\* a task is handed to the executor once: nothing returns to the queue
C13_SubmittedOnce ==
    \A t \in DOMAIN tasks :
        /\ tasks'[t].st = "queued" => tasks[t].st \in {"unsubmitted", "queued"}
        /\ tasks'[t].st = "unsubmitted" => tasks[t].st = "unsubmitted"

\* at most max_workers tasks have started and not finished; the tasks are
\* the input urls, one each, and all are submitted once collection begins
C13_Bounded ==
    prog = "pool" =>
        /\ Cardinality(Running) <= max_workers
        /\ DOMAIN tasks = 1..Len(urls)
        /\ \A t \in DOMAIN tasks : tasks[t].url = urls[t]
        /\ dpc \in {"collect", "summary"} => Unsubmitted = {}

\* C13: in every state of download_youtube_content at most max_workers
\* tasks have started and not yet finished, and each input url is submitted
\* as exactly one task.
C13_BoundedConcurrency == []C13_Bounded /\ [][C13_SubmittedOnce]_vars

C13_Witness ==
    /\ prog = "pool" /\ max_workers = 1 /\ Len(urls) = 2 /\ urls[1] = urls[2]
    /\ tasks[1].st = "done" /\ tasks[2].st = "download"
    /\ Cardinality(Running) = max_workers

\* the characters of the model's paths in code point order, the order in
\* which Python compares strings
CodePointOrder ==
    <<".", "/", "0", "1", "2", "3", "4", "5", "6", "7", "8", "9">>
        \o UpperChars \o LowerChars

Ord(c) == CHOOSE i \in 1..Len(CodePointOrder) : CodePointOrder[i] = c

\* a comes before b in lexical order
LexLess(a, b) ==
    \E k \in 1..(Len(a) + 1) :
        /\ \A i \in 1..(k - 1) : i <= Len(b) /\ a[i] = b[i]
        /\ k <= Len(b)
        /\ (k <= Len(a) => Ord(a[k]) < Ord(b[k]))

\* C14 as stated: when find_existing_asset returns a path, it is the first
\* in lexical order of the valid final files of the id, whatever the order
\* in which the directory was listed.
C14_LexicalFirst ==
    (prog = "probe" /\ pcalled /\ presult # None) =>
        \A q \in GlobMatches(fs, OutputDir, pstem) :
            Qualifies(fs, q) => (q = presult \/ LexLess(presult, q))

\* C15 as stated: find_existing_asset(output_dir, id) only returns a file
\* whose stem, its name without the final extension, equals id.
C15_StemEqualsId ==
    (prog = "probe" /\ pcalled /\ presult # None) =>
        BaseName(SplitExtRoot(presult)) = pstem

Statuses == {"OK", "SKIPPED", "ERROR"}

\* C16 as stated: the failure count the run reports at its end is the number
\* of rows whose status is ERROR (a SKIPPED row is not a failure).
C16_FailuresAreErrors ==
    (prog = "batch" /\ mpc = "exit0") =>
        fail_count = Cardinality({ i \in 1..Len(rows) : rows[i].status = "ERROR" })

\* main has ended
MainEnded == mpc \in {"exit0", "exit1", "crashed"}

\* C17 as stated: the process exits non-zero when the workbook cannot be
\* read and zero in every other run.
C17_ExitStatus ==
    (prog = "batch" /\ MainEnded) =>
        ((ExitStatus # 0) <=> ReadExcelRaises(excel))

\* the moves of download_one (FETCHING and TRANSFER are the two calls of the
\* FETCHING step; DONE is the return, with the outcome)
TaskMoves ==
    { <<"IDLE", "PROBING">>, <<"PROBING", "DONE">>, <<"PROBING", "FETCHING">>,
      <<"FETCHING", "TRANSFER">>, <<"FETCHING", "DONE">>,
      <<"TRANSFER", "VERIFYING">>, <<"TRANSFER", "DONE">>,
      <<"VERIFYING", "DONE">>, <<"DONE", "IDLE">> }

C18_TaskStep ==
    prog = "batch" =>
        /\ tpc' # tpc => <<tpc, tpc'>> \in TaskMoves
        /\ (tpc # "DONE" /\ tpc' = "DONE") =>
              /\ outcome = None /\ outcome' # None
              /\ outcome'.status \in Statuses
              /\ tpc = "PROBING" => outcome'.status = "SKIPPED"
              /\ tpc \in {"FETCHING", "TRANSFER"} => outcome'.status = "ERROR"
              /\ tpc = "VERIFYING" => outcome'.status \in {"OK", "ERROR"}
        /\ tpc' # "DONE" => outcome' = None
        /\ tpc = "DONE" =>
              /\ tpc' = "DONE" => outcome' = outcome
              /\ fs' = fs /\ ecalls' = ecalls /\ probed' = probed
              /\ tpc' = "IDLE" => rows' = Append(rows, ReportRow(df[idx], outcome))

\* C18: download_one moves PENDING -> PROBING -> SKIPPED, or PENDING ->
\* PROBING -> FETCHING -> VERIFYING -> OK or ERROR, or to ERROR from FETCHING;
\* it produces one outcome, one of OK, SKIPPED, ERROR, and once the outcome
\* is produced the task takes no further step: main records that outcome.
C18_TaskStateMachine == [][C18_TaskStep]_vars

C18_Witness ==
    /\ prog = "batch" /\ Len(rows) = 1 /\ rows[1].status = "ERROR"
    /\ ecalls[1].d = 1
    /\ tpc = "DONE" /\ outcome.status = "OK"
    /\ ~EndsWith(Lower(outcome.filepath), Mp4)

\* C19 as stated: a batch that read N rows ends with a report of N rows, one
\* per row read and in that order, each with status OK, SKIPPED or ERROR.
C19_ReportRows ==
    (prog = "batch" /\ mpc \in {"exit0", "crashed"}) =>
        /\ report # None
        /\ Len(report[1]) = Len(df)
        /\ \A i \in 1..Len(df) :
              /\ report[1][i].internal_penalty_id = Strip(df[i].internal_penalty_id)
              /\ report[1][i].status \in Statuses

\* C20: when extract_info returns None the task ends in ERROR / failure and
\* download is not called for it; download is only called after an
\* extract_info that returned a result.
C20_NoTransferWithoutInfo ==
    /\ prog = "batch" =>
          \A i \in DOMAIN ecalls :
              /\ ecalls[i].xres = <<"none">> =>
                    /\ ecalls[i].d = 0
                    /\ HasOutcome(i) /\ OutcomeOf(i).status = "ERROR"
              /\ ecalls[i].d > 0 => (ecalls[i].x = 1 /\ ecalls[i].xres = <<"info">>)
    /\ prog = "pool" =>
          \A t \in DOMAIN tasks :
              /\ (hist[t] # <<>> /\ hist[t][1].kind = "none") =>
                    /\ Len(hist[t]) = 1
                    /\ tasks[t].st = "done" /\ ~tasks[t].result.success
              /\ Len(hist[t]) >= 2 => hist[t][1].kind = "info"

C20_Witness ==
    /\ prog = "batch" /\ mpc = "exit0" /\ Len(rows) = 2
    /\ ecalls[1].xres = <<"none">> /\ rows[1].status = "ERROR"
    /\ ecalls[2].xres = <<"info">> /\ ecalls[2].d = 1 /\ rows[2].status = "OK"

\* the files of the output folder that hold a usable final container for
\* the logical id: name "<id>.<something>", allow-listed extension, non-empty
UsableFinals(id) ==
    { p \in GlobMatches(fs, OutputDir, id) : IsFinalFile(fs, p) }

\* the row at idx has been through VERIFYING (its transfer returned)
Verified ==
    /\ prog = "batch" /\ tpc = "DONE" /\ idx \in DOMAIN ecalls
    /\ ecalls[idx].d = 1 /\ ecalls[idx].raised = <<>>

\* C21: VERIFYING records OK whenever some non-empty file in an allow-listed
\* final container exists for the logical id (the plain message when that
\* file is the .mp4, the distinguishing message otherwise) and ERROR only when
\* none exists: an empty file at the expected .mp4 path does not hide a valid
\* alternate container (checked for the ids that carry no in-progress marker)
C21_VerifyFindsAnyFinal ==
    (Verified /\ ~HasTempMarker(PathJoin(OutputDir, Strip(df[idx].internal_penalty_id)))) =>
        LET id == Strip(df[idx].internal_penalty_id)
        IN  /\ (outcome.status = "OK") <=> (UsableFinals(id) # {})
            /\ outcome.status = "OK" =>
                  /\ outcome.filepath \in UsableFinals(id)
                  /\ (outcome.message.text = "OK")
                        <=> EndsWith(Lower(outcome.filepath), Mp4)
            /\ outcome.status \in {"OK", "ERROR"}

\* C22: within one run every item gets at most one metadata extraction and at
\* most one transfer, the transfer only after an extraction that gave data;
\* an item whose fetch failed is never fetched again, neither by its task nor
\* by the batch loop (rows already reported keep their call counts)
C22_DelegateOnce ==
    prog = "batch" =>
        \A i \in DOMAIN ecalls :
            /\ ecalls[i].x <= 1 /\ ecalls[i].d <= 1
            /\ ecalls[i].d = 1 => ecalls[i].xres = <<"info">>
            /\ ecalls[i].raised # <<>> => ecalls[i].x + ecalls[i].d <= 2
            /\ i > idx => ecalls[i].x = 0 /\ ecalls[i].d = 0
            /\ (i = idx /\ tpc \in {"IDLE", "PROBING", "FETCHING"}) =>
                  ecalls[i].x = 0 /\ ecalls[i].d = 0

C22_Witness ==
    /\ prog = "batch" /\ mpc = "loop" /\ idx = 2 /\ Len(rows) = 1
    /\ rows[1].status = "ERROR" /\ ecalls[1].raised # <<>>
    /\ ecalls[1].x = 1 /\ ecalls[1].d = 1
    /\ tpc = "TRANSFER" /\ ecalls[2].x = 1

\* the fixed ceiling the backoff table gives each error class
Ceiling(class) == IF class = "http" THEN 30 ELSE 10

\* C23: for each error class the sleep told for attempt n never decreases
\* from one attempt to the next, grows strictly while it is below the class's
\* ceiling, and never exceeds the ceiling (30 for http, 10 for fragment, 10
\* for extractor)
C23_BackoffTable ==
    prog = "retry" =>
        /\ \A k \in 1..Len(rslept) : rslept[k] >= 0 /\ rslept[k] <= Ceiling(rclass)
        /\ \A k \in 1..(Len(rslept) - 1) :
              /\ rslept[k] <= rslept[k + 1]
              /\ rslept[k] < Ceiling(rclass) => rslept[k] < rslept[k + 1]

\* the http sleeps have climbed 5, 10, ... to the ceiling and stayed there
C23_Witness ==
    /\ prog = "retry" /\ rclass = "http" /\ rfirst = 1 /\ Len(rslept) = 8
    /\ rslept[1] = 5 /\ rslept[5] = 25 /\ rslept[6] = 30 /\ rslept[8] = 30

\* the url's query string names the parameter 'list'
QueryHasList(url) == \E i \in 1..Len(url.query) : url.query[i][1] = "list"

\* C24: when the inspection raises or gives no info, the classifier returns
\* is_collection = (the query string contains 'list') with empty raw info;
\* when the inspection gives info, is_collection is decided by its '_type'
\* alone
C24_ClassifierFallback ==
    (prog = "cls" /\ clast # None /\ clast.answer # <<>>) =>
        LET r == clast.answer[1]
            v == clast.value
        IN  /\ ~v.raises
            /\ IF r.kind = "info"
               THEN v.is_playlist = (r.type = "playlist")
               ELSE v.is_playlist = QueryHasList(clast.url) /\ v.info = <<>>

\* C25: build_ydl_opts asks for separate best video plus best audio with a
\* fallback ending at the single best stream, with a non-empty remux/convert
\* pipeline and the container hint mp4, exactly when the muxer is available
\* and maximum quality is wanted; otherwise the selector is the single 'best',
\* the pipeline is empty and the hint is unset
C25_VideoNegotiation ==
    (prog = "opts" /\ handed # None /\ handed.via = "build_ydl_opts"
        /\ ~handed.opts.raises) =>
        LET o == handed.opts
        IN  IF nargs.have_ffmpeg /\ ~nargs.no_max_quality_mp4
            THEN /\ o.format = <<"bestvideo*", "+", "bestaudio", "/", "best">>
                 /\ o.postprocessors # <<>>
                 /\ \A i \in 1..Len(o.postprocessors) :
                       /\ o.postprocessors[i].key \in {"FFmpegVideoRemuxer", "FFmpegVideoConvertor"}
                       /\ o.postprocessors[i].preferedformat = "mp4"
                 /\ o.merge_output_format = <<"mp4">>
            ELSE /\ o.format = <<"best">>
                 /\ o.postprocessors = <<>>
                 /\ o.merge_output_format = None

\* maximum quality wanted but no muxer: the policy degrades to 'best'
C25_Witness ==
    /\ prog = "opts" /\ handed # None /\ handed.via = "build_ydl_opts"
    /\ ~handed.opts.raises
    /\ ~nargs.no_max_quality_mp4 /\ ~nargs.have_ffmpeg
    /\ handed.opts.format = <<"best">> /\ handed.opts.merge_output_format = None

\* C26: in audio-only mode download_single_video asks for the best audio
\* stream, hands exactly one extract-audio step to mp3 at quality 192, uses
\* the extension mp3 and sets no merge container hint; in video mode the
\* merge container hint is mp4
C26_AudioNegotiation ==
    (prog = "opts" /\ handed # None /\ handed.via = "download_single_video") =>
        LET o == handed.opts
        IN  IF handed.audio
            THEN /\ o.format = <<"bestaudio", "/", "best">>
                 /\ Len(o.postprocessors) = 1
                 /\ o.postprocessors[1] = [key |-> "FFmpegExtractAudio",
                                           preferredcodec |-> "mp3",
                                           preferredquality |-> "192"]
                 /\ o.file_extension = "mp3"
                 /\ o.merge_output_format = None
            ELSE o.merge_output_format = <<"mp4">>

C26_Witness ==
    /\ prog = "opts" /\ handed # None /\ handed.via = "download_single_video"
    /\ handed.audio /\ naudio
    /\ handed.opts.file_extension = "mp3" /\ handed.opts.merge_output_format = None

\* C27: when the workbook cannot be read or has fewer than 13 columns the run
\* aborts before any task: no probe, no engine call, no report row and no
\* report file, and the run ends there
C27_InputErrorFirst ==
    (prog = "batch" /\ excel.kind # "ok") =>
        /\ mpc \in {"read", "exit1"}
        /\ tpc = "IDLE" /\ idx = 0 /\ df = <<>>
        /\ ecalls = <<>> /\ probed = <<>>
        /\ rows = <<>> /\ report = None
        /\ run = 1

C27_Witness ==
    /\ prog = "batch" /\ excel.kind = "narrow" /\ mpc = "exit1"
    /\ rows = <<>> /\ report = None

\* the position of task t in the order the tasks finished
FinishPos(t) == CHOOSE k \in 1..Len(finished) : finished[k] = t

\* C28: results are appended in the order the tasks finish, whatever the
\* submission order (of any two results the one listed first finished
\* first), and each result carries the url of its own task
C28_CompletionOrder ==
    prog = "pool" =>
        /\ \A i \in 1..Len(results) :
              /\ results[i].message.thread \in DOMAIN tasks
              /\ results[i].url = urls[results[i].message.thread]
              /\ \E k \in 1..Len(finished) : finished[k] = results[i].message.thread
        /\ \A i, j \in 1..Len(results) :
              i < j => FinishPos(results[i].message.thread)
                          < FinishPos(results[j].message.thread)

\* C29: when the input has no duplicate items, no two tasks running at the
\* same time write to the same output file path
C29_DistinctTargets ==
    (prog = "pool" /\ \A i, j \in DOMAIN urls : i # j => urls[i] # urls[j]) =>
        \A t, u \in DOMAIN tasks :
            (t # u /\ tasks[t].st = "download" /\ tasks[u].st = "download") =>
                tasks[t].target # tasks[u].target

\* the nine final containers of the allow-list
AllowedExts ==
    { <<".","m","p","4">>, <<".","m","k","v">>, <<".","w","e","b","m">>,
      <<".","m","o","v">>, <<".","m","4","v">>, <<".","m","p","3">>,
      <<".","a","a","c">>, <<".","o","p","u","s">>, <<".","m","4","a">> }

\* the listed path is a non-empty allow-listed file without in-progress marker
Eligible(path) ==
    /\ Lower(SplitExtExt(path)) \in AllowedExts
    /\ fs[BaseName(path)] > 0
    /\ \A t \in TEMP_EXT_CONTAINS : ~Contains(Lower(path), t)

\* C30: every path find_existing_asset returns has an extension that is,
\* case-insensitively, one of mp4, mkv, webm, mov, m4v, mp3, aac, opus, m4a
\* (a non-empty file with any other extension is never reported), and the
\* probe returns none exactly when no listed file qualifies
C30_ProbeAllowList ==
    (prog = "probe" /\ pcalled) =>
        /\ presult # None =>
              /\ Lower(SplitExtExt(presult)) \in AllowedExts
              /\ \E i \in 1..Len(plisting) : plisting[i] = presult
        /\ (presult = None) <=> (\A i \in 1..Len(plisting) : ~Eligible(plisting[i]))

\* a non-empty .txt listed first is passed over and the .MKV is returned
C30_Witness ==
    /\ prog = "probe" /\ pcalled /\ presult # None
    /\ SplitExtExt(presult) = <<".","M","K","V">>
    /\ \E i, k \in 1..Len(plisting) :
          /\ i < k /\ plisting[k] = presult
          /\ SplitExtExt(plisting[i]) = <<".","t","x","t">>
          /\ fs[BaseName(plisting[i])] > 0

\* C31: a call to find_existing_asset leaves the file system as it was (no
\* file created, deleted or modified), whether it finds an asset or not
C31_ProbePurity ==
    (prog = "probe" /\ pcalled) => fs = pfsBefore

\* a call that came across an empty file and a temporary one, found nothing
\* and left both in place
C31_Witness ==
    /\ prog = "probe" /\ pcalled /\ presult = None
    /\ \E i, j \in 1..Len(plisting) :
          /\ BaseName(plisting[i]) \in DOMAIN fs /\ fs[BaseName(plisting[i])] = 0
          /\ HasTempMarker(plisting[j]) /\ BaseName(plisting[j]) \in DOMAIN fs

\* C32: within one batch the engine inspects each distinct url at most once:
\* a call for a url the pre-dispatch pass already classified (the call a task
\* makes) runs no new inspection and observes the classification the pass
\* computed, however many other urls the pass classified in between
C32_SingleInspection ==
    (prog = "cls" /\ clast # None /\ cwatch # None /\ clast.again) =>
        /\ clast.url = cwatch.url
        /\ clast.answer = <<>>
        /\ ~clast.value.raises
        /\ clast.value.is_playlist = cwatch.value.is_playlist

\* C33: of the outcome download_one returns for a row: ERROR has no resolved
\* path and no size; OK has a resolved path that exists, is not empty and
\* that the prober would accept as the asset of the same id; SKIPPED carries
\* the path the prober returned
C33_OutcomeFields ==
    (prog = "batch" /\ tpc = "DONE") =>
        LET id == Strip(df[idx].internal_penalty_id)
        IN  /\ outcome.status = "ERROR" =>
                  outcome.filepath = None /\ outcome.size_bytes = None
            /\ outcome.status = "OK" =>
                  /\ outcome.filepath # None
                  /\ PathExists(fs, outcome.filepath)
                  /\ GetSize(fs, outcome.filepath) > 0
                  /\ outcome.size_bytes = <<GetSize(fs, outcome.filepath)>>
                  /\ ProberAccepts(fs, id, outcome.filepath)
            /\ outcome.status = "SKIPPED" =>
                  /\ existing # None /\ outcome.filepath = existing
                  /\ probed[idx] = <<existing>>

\* the output template is the per-collection one (subfolder per playlist)
IsCollectionTemplate(tmpl) == tmpl[1] = "%(playlist_title)s"

\* the cached classification of the url came from the fallback heuristic
FromFallback(url) ==
    CacheHit(cache, url) /\ cache[CacheIndex(cache, url)].value.info = <<>>

\* C34: the output template chosen for a task (per-collection or single-item)
\* matches the type the engine reports in the task's own fresh extraction,
\* also when the cached classification came from the fallback heuristic
\* (checked for the tasks whose classification came from the fallback)
C34_TemplateMatchesType ==
    prog = "pool" =>
        \A t \in DOMAIN tasks :
            (tasks[t].st = "download" /\ FromFallback(tasks[t].url)) =>
                (IsCollectionTemplate(tasks[t].ydl_opts.outtmpl)
                    <=> tasks[t].info.type = "playlist")

\* the credential fields of the options o are those the arguments a call for
CredentialsAsGiven(a, o) ==
    IF a.cookie_file # None
    THEN IF a.cookie_exists
         THEN ~o.raises /\ o.cookiefile = a.cookie_file /\ o.cookiesfrombrowser = None
         ELSE o.raises
    ELSE IF a.browser # None
         THEN /\ ~o.raises /\ o.cookiefile = None
              /\ o.cookiesfrombrowser = <<a.browser[1], a.profile>>
         ELSE ~o.raises /\ o.cookiefile = None /\ o.cookiesfrombrowser = None

\* C35: build_ydl_opts passes at most one credential source to the engine:
\* the cookie file when one is given, else the browser/profile pair when a
\* browser is given, else none; a cookie file that does not exist is rejected
\* before the probe or any engine call is made for the item
C35_AuthContext ==
    /\ (prog = "opts" /\ handed # None /\ handed.via = "build_ydl_opts") =>
          CredentialsAsGiven(nargs, handed.opts)
    /\ prog = "batch" =>
          /\ ydl_opts # None => CredentialsAsGiven(args, ydl_opts)
          /\ (args # None /\ args.cookie_file # None /\ ~args.cookie_exists) =>
                /\ tpc = "IDLE" /\ ydl_opts = None
                /\ \A i \in DOMAIN ecalls : ecalls[i] = NoCalls /\ probed[i] = <<>>

\* both a cookie file and a browser were given: only the file is passed
C35_Witness ==
    /\ prog = "opts" /\ handed # None /\ handed.via = "build_ydl_opts"
    /\ nargs.cookie_file # None /\ nargs.cookie_exists /\ nargs.browser # None
    /\ handed.opts.cookiefile = nargs.cookie_file
    /\ handed.opts.cookiesfrombrowser = None

\* the tokens of the input string: its maximal runs of characters that are
\* neither commas nor whitespace, as (first, last) positions
TokenRuns(s) ==
    { r \in (1..Len(s)) \X (1..Len(s)) :
        /\ r[1] <= r[2]
        /\ \A i \in r[1]..r[2] : s[i] \notin {",", " ", "\n", "\t", "\r", "\f"}
        /\ (r[1] = 1 \/ s[r[1] - 1] \in {",", " ", "\n", "\t", "\r", "\f"})
        /\ (r[2] = Len(s) \/ s[r[2] + 1] \in {",", " ", "\n", "\t", "\r", "\f"}) }

\* the tokens that name YouTube, and the k-th of them in input order
YoutubeRuns(s) ==
    { r \in TokenRuns(s) :
        \/ Contains(SubSeq(s, r[1], r[2]), <<"y","o","u","t","u","b","e",".","c","o","m">>)
        \/ Contains(SubSeq(s, r[1], r[2]), <<"y","o","u","t","u",".","b","e">>) }

KthRun(R, k) == CHOOSE r \in R : Cardinality({ q \in R : q[1] < r[1] }) = k - 1

\* C36: parse_multiple_urls returns exactly the non-empty tokens (split on
\* commas and whitespace) that contain 'youtube.com' or 'youtu.be', in input
\* order and with duplicates kept, and returned + skipped = non-empty tokens
C36_UrlListParsing ==
    (prog = "parse" /\ uresult # None) =>
        LET res == uresult[1]
            Y == YoutubeRuns(uinput)
        IN  /\ Len(res.valid_urls) = Cardinality(Y)
            /\ \A k \in 1..Cardinality(Y) :
                  res.valid_urls[k] = SubSeq(uinput, KthRun(Y, k)[1], KthRun(Y, k)[2])
            /\ Len(res.valid_urls) + res.invalid_count = Cardinality(TokenRuns(uinput))

\* one url given twice, an other token between them, separators at both ends
C36_Witness ==
    /\ prog = "parse" /\ uresult # None
    /\ Len(uresult[1].valid_urls) = 2
    /\ uresult[1].valid_urls[1] = uresult[1].valid_urls[2]
    /\ uresult[1].invalid_count = 1
    /\ Cardinality(TokenRuns(uinput)) = 3


\* ---------------------------------------------------------------------------
\* C37  Bounded retry: fetch_profile issues at most max_retries requests and
\* ends by returning; every request but the last was answered 429 or 5xx; a
\* 200 or any other non-retriable status is followed by a return and no
\* further request; and when all max_retries attempts were answered 429 or
\* 5xx the function has returned None.
\* ---------------------------------------------------------------------------
C37_BoundedRetry ==
    prog = "fetch" =>
        /\ Len(fhist) <= fmax
        /\ fpc # "raised"
        /\ \A i \in 1..(Len(fhist) - 1) : Retriable(fhist[i])
        /\ (fhist # <<>> /\ ~Retriable(fhist[Len(fhist)])) => fpc = "returned"
        /\ (fpc # "call" /\ Len(fhist) = fmax
                /\ \A i \in 1..Len(fhist) : Retriable(fhist[i]))
            => (fpc = "returned" /\ fret = None)


\* ---------------------------------------------------------------------------
\* C38  Worker budget clamp: the max_workers passed on is an integer from 1
\* to 5; with more than one url it is the entered whole number brought into
\* that range, and 3 when the entry is empty or is not a whole number; with
\* exactly one url it is 1.
\* ---------------------------------------------------------------------------
RECURSIVE DigitsOf(_)
DigitsOf(n) ==
    LET d == CHOOSE c \in Digits : DigitVal(c) = n % 10
    IN  IF n < 10 THEN <<d>> ELSE Append(DigitsOf(n \div 10), d)

\* the ways of writing the whole number n, leading zeros aside
WritingsOf(n) ==
    IF n < 0 THEN {<<"-">> \o DigitsOf(0 - n)}
    ELSE {DigitsOf(n), <<"+">> \o DigitsOf(n)} \cup
         (IF n = 0 THEN {<<"-", "0">>} ELSE {})

EnteredRange == (0 - 20)..20

\* the entry without the blanks around it
Trimmed(text) ==
    IF \A i \in 1..Len(text) : text[i] = " " THEN <<>>
    ELSE LET a == CHOOSE i \in 1..Len(text) :
                      text[i] # " " /\ \A j \in 1..(i - 1) : text[j] = " "
             b == CHOOSE i \in 1..Len(text) :
                      text[i] # " " /\ \A j \in (i + 1)..Len(text) : text[j] = " "
         IN  SubSeq(text, a, b)

EnteredNumbers(text) == {n \in EnteredRange : Trimmed(text) \in WritingsOf(n)}

C38_WorkerBudgetClamp ==
    (prog = "entry" /\ wbudget # <<>>) =>
        /\ wbudget[1] \in 1..5
        /\ wnurls = 1 => wbudget[1] = 1
        /\ wnurls > 1 =>
            /\ \A n \in EnteredNumbers(wtext) :
                   wbudget[1] = (IF n < 1 THEN 1 ELSE IF n > 5 THEN 5 ELSE n)
            /\ EnteredNumbers(wtext) = {} => wbudget[1] = 3

C38_Witness ==
    /\ prog = "entry"
    /\ wnurls > 1
    /\ wbudget = <<1>>
    /\ EnteredNumbers(wtext) = {0 - 2}

=============================================================================
